---- MODULE Spec2Model ----
(***************************************************************************)
(* Holiday calendars of five stock exchanges (NYSE, CME, B3, SSE, JPX)     *)
(* and the Holidays lookup facade of stock/stock_exchange_holidays.py.     *)
(*                                                                         *)
(* A date is the triple <<year, month, day>>; a holiday entry is the pair  *)
(* <<date, description>>, as the tuple (date, str) of the source.          *)
(* A dict is the sequence of its <<key, value>> items in insertion order.  *)
(* Object references are integers: None is 0, the i-th constructed         *)
(* calendar is i.                                                          *)
(***************************************************************************)
EXTENDS Integers, Sequences, FiniteSets, TLC

VARIABLES calendars, init_pc, facade, cache, cache_hits, result, kept, threads

vars == <<calendars, init_pc, facade, cache, cache_hits, result, kept, threads>>

\* First and last year the callers ask about (queries and probed dates).
MinYear == 2019
MaxYear == 2026

\* The callers of Spec ask get_holidays_by_year about at most this many
\* distinct years.
MaxDistinctYears == 2

\* The callers repeat a cached get_holidays_by_year call at most this often.
MaxHits == 1

\* The callers of SpecInstances construct at most this many calendars.
MaxInstances == 2

\* The callers of SpecThreads are this many threads.
NumThreads == 2

\* The subclass of SpecPermuted and SpecDescribed passes this many entries to
\* _add_holiday.
SampleSize == 4

\* @lru_cache(maxsize=128)
CacheMaxSize == 128

None == 0

Exchanges == {"NYSE", "CME", "B3", "SSE", "JPX"}

\* NYSE._initialize_holidays: the _add_holiday calls, in source order.
NYSE_initialize_holidays ==
  <<
    <<<<2020, 1, 1>>, "New year">>,
    <<<<2020, 1, 20>>, "Martin Luther King, Jr. Day">>,
    <<<<2020, 2, 17>>, "Washington's Birthday">>,
    <<<<2020, 4, 10>>, "Good Friday">>,
    <<<<2020, 5, 25>>, "Memorial Day">>,
    <<<<2020, 7, 4>>, "Independence Day">>,
    <<<<2020, 9, 7>>, "Labor Day">>,
    <<<<2020, 11, 26>>, "Thanksgiving Day">>,
    <<<<2020, 12, 25>>, "Christmas Day">>,
    <<<<2020, 12, 31>>, "Last day of year">>,
    <<<<2021, 1, 1>>, "New year">>,
    <<<<2021, 1, 18>>, "Martin Luther King, Jr. Day">>,
    <<<<2021, 2, 15>>, "Washington's Birthday">>,
    <<<<2021, 4, 2>>, "Good Friday">>,
    <<<<2021, 5, 31>>, "Memorial Day">>,
    <<<<2021, 7, 4>>, "Independence Day">>,
    <<<<2021, 9, 6>>, "Labor Day">>,
    <<<<2021, 11, 25>>, "Thanksgiving Day">>,
    <<<<2021, 12, 25>>, "Christmas Day">>,
    <<<<2021, 12, 31>>, "Last day of year">>,
    <<<<2022, 1, 1>>, "New year">>,
    <<<<2022, 1, 17>>, "Martin Luther King, Jr. Day">>,
    <<<<2022, 2, 21>>, "Washington's Birthday">>,
    <<<<2022, 4, 15>>, "Good Friday">>,
    <<<<2022, 5, 30>>, "Memorial Day">>,
    <<<<2022, 6, 20>>, "Juneteenth National Independence Day">>,
    <<<<2022, 7, 4>>, "Independence Day">>,
    <<<<2022, 9, 5>>, "Labor Day">>,
    <<<<2022, 11, 24>>, "Thanksgiving Day">>,
    <<<<2022, 12, 25>>, "Christmas Day">>,
    <<<<2022, 12, 31>>, "Last day of year">>,
    <<<<2023, 1, 1>>, "New year">>,
    <<<<2023, 1, 16>>, "Martin Luther King, Jr. Day">>,
    <<<<2023, 2, 20>>, "Washington's Birthday">>,
    <<<<2023, 4, 7>>, "Good Friday">>,
    <<<<2023, 5, 29>>, "Memorial Day">>,
    <<<<2023, 6, 19>>, "Juneteenth National Independence Day">>,
    <<<<2023, 7, 4>>, "Independence Day">>,
    <<<<2023, 9, 4>>, "Labor Day">>,
    <<<<2023, 11, 23>>, "Thanksgiving Day">>,
    <<<<2023, 12, 25>>, "Christmas Day">>,
    <<<<2023, 12, 31>>, "Last day of year">>,
    <<<<2024, 1, 1>>, "New year">>,
    <<<<2024, 1, 15>>, "Martin Luther King, Jr. Day">>,
    <<<<2024, 2, 19>>, "Washington's Birthday">>,
    <<<<2024, 3, 29>>, "Good Friday">>,
    <<<<2024, 5, 27>>, "Memorial Day">>,
    <<<<2024, 6, 19>>, "Juneteenth National Independence Day">>,
    <<<<2024, 7, 4>>, "Independence Day">>,
    <<<<2024, 9, 2>>, "Labor Day">>,
    <<<<2024, 11, 28>>, "Thanksgiving Day">>,
    <<<<2024, 12, 25>>, "Christmas Day">>,
    <<<<2024, 12, 31>>, "Last day of year">>,
    <<<<2025, 1, 1>>, "New year">>,
    <<<<2025, 1, 20>>, "Martin Luther King, Jr. Day">>,
    <<<<2025, 2, 17>>, "Washington's Birthday">>,
    <<<<2025, 4, 18>>, "Good Friday">>,
    <<<<2025, 5, 26>>, "Memorial Day">>,
    <<<<2025, 6, 19>>, "Juneteenth National Independence Day">>,
    <<<<2025, 7, 4>>, "Independence Day">>,
    <<<<2025, 9, 1>>, "Labor Day">>,
    <<<<2025, 11, 27>>, "Thanksgiving Day">>,
    <<<<2025, 12, 25>>, "Christmas Day">>,
    <<<<2025, 12, 31>>, "Last day of year">>,
    <<<<2026, 1, 1>>, "New year">>,
    <<<<2026, 1, 19>>, "Martin Luther King, Jr. Day">>,
    <<<<2026, 2, 16>>, "Washington's Birthday">>,
    <<<<2026, 4, 3>>, "Good Friday">>,
    <<<<2026, 5, 25>>, "Memorial Day">>,
    <<<<2026, 6, 19>>, "Juneteenth National Independence Day">>,
    <<<<2026, 7, 4>>, "Independence Day">>,
    <<<<2026, 9, 7>>, "Labor Day">>,
    <<<<2026, 11, 26>>, "Thanksgiving Day">>,
    <<<<2026, 12, 25>>, "Christmas Day">>,
    <<<<2026, 12, 31>>, "Last day of year">>
  >>

\* CME._initialize_holidays: the _add_holiday calls, in source order.
CME_initialize_holidays ==
  <<
    <<<<2020, 1, 1>>, "New year">>,
    <<<<2020, 1, 20>>, "Martin Luther King, Jr. Day">>,
    <<<<2020, 2, 17>>, "Washington's Birthday">>,
    <<<<2020, 4, 10>>, "Good Friday">>,
    <<<<2020, 5, 25>>, "Memorial Day">>,
    <<<<2020, 7, 4>>, "Independence Day">>,
    <<<<2020, 9, 7>>, "Labor Day">>,
    <<<<2020, 11, 26>>, "Thanksgiving Day">>,
    <<<<2020, 12, 25>>, "Christmas Day">>,
    <<<<2020, 12, 31>>, "Last day of year">>,
    <<<<2021, 1, 1>>, "New year">>,
    <<<<2021, 1, 18>>, "Martin Luther King, Jr. Day">>,
    <<<<2021, 2, 15>>, "Washington's Birthday">>,
    <<<<2021, 4, 2>>, "Good Friday">>,
    <<<<2021, 5, 31>>, "Memorial Day">>,
    <<<<2021, 7, 4>>, "Independence Day">>,
    <<<<2021, 9, 6>>, "Labor Day">>,
    <<<<2021, 11, 25>>, "Thanksgiving Day">>,
    <<<<2021, 12, 25>>, "Christmas Day">>,
    <<<<2021, 12, 31>>, "Last day of year">>,
    <<<<2022, 1, 1>>, "New year">>,
    <<<<2022, 1, 17>>, "Martin Luther King, Jr. Day">>,
    <<<<2022, 2, 21>>, "Washington's Birthday">>,
    <<<<2022, 4, 15>>, "Good Friday">>,
    <<<<2022, 5, 30>>, "Memorial Day">>,
    <<<<2022, 6, 20>>, "Juneteenth National Independence Day">>,
    <<<<2022, 7, 4>>, "Independence Day">>,
    <<<<2022, 9, 5>>, "Labor Day">>,
    <<<<2022, 11, 24>>, "Thanksgiving Day">>,
    <<<<2022, 12, 25>>, "Christmas Day">>,
    <<<<2022, 12, 31>>, "Last day of year">>,
    <<<<2023, 1, 1>>, "New year">>,
    <<<<2023, 1, 16>>, "Martin Luther King, Jr. Day">>,
    <<<<2023, 2, 20>>, "Washington's Birthday">>,
    <<<<2023, 4, 7>>, "Good Friday">>,
    <<<<2023, 5, 29>>, "Memorial Day">>,
    <<<<2023, 6, 19>>, "Juneteenth National Independence Day">>,
    <<<<2023, 7, 4>>, "Independence Day">>,
    <<<<2023, 9, 4>>, "Labor Day">>,
    <<<<2023, 11, 23>>, "Thanksgiving Day">>,
    <<<<2023, 12, 25>>, "Christmas Day">>,
    <<<<2023, 12, 31>>, "Last day of year">>,
    <<<<2024, 1, 1>>, "New year">>,
    <<<<2024, 1, 15>>, "Martin Luther King, Jr. Day">>,
    <<<<2024, 2, 19>>, "Washington's Birthday">>,
    <<<<2024, 3, 29>>, "Good Friday">>,
    <<<<2024, 5, 27>>, "Memorial Day">>,
    <<<<2024, 6, 19>>, "Juneteenth National Independence Day">>,
    <<<<2024, 7, 4>>, "Independence Day">>,
    <<<<2024, 9, 2>>, "Labor Day">>,
    <<<<2024, 11, 28>>, "Thanksgiving Day">>,
    <<<<2024, 12, 25>>, "Christmas Day">>,
    <<<<2024, 12, 31>>, "Last day of year">>,
    <<<<2025, 1, 1>>, "New year">>,
    <<<<2025, 1, 20>>, "Martin Luther King, Jr. Day">>,
    <<<<2025, 2, 17>>, "Washington's Birthday">>,
    <<<<2025, 4, 18>>, "Good Friday">>,
    <<<<2025, 5, 26>>, "Memorial Day">>,
    <<<<2025, 6, 19>>, "Juneteenth National Independence Day">>,
    <<<<2025, 7, 4>>, "Independence Day">>,
    <<<<2025, 9, 1>>, "Labor Day">>,
    <<<<2025, 11, 27>>, "Thanksgiving Day">>,
    <<<<2025, 12, 25>>, "Christmas Day">>,
    <<<<2025, 12, 31>>, "Last day of year">>,
    <<<<2026, 1, 1>>, "New year">>,
    <<<<2026, 1, 19>>, "Martin Luther King, Jr. Day">>,
    <<<<2026, 2, 16>>, "Washington's Birthday">>,
    <<<<2026, 4, 3>>, "Good Friday">>,
    <<<<2026, 5, 25>>, "Memorial Day">>,
    <<<<2026, 6, 19>>, "Juneteenth National Independence Day">>,
    <<<<2026, 7, 4>>, "Independence Day">>,
    <<<<2026, 9, 7>>, "Labor Day">>,
    <<<<2026, 11, 26>>, "Thanksgiving Day">>,
    <<<<2026, 12, 25>>, "Christmas Day">>,
    <<<<2026, 12, 31>>, "Last day of year">>
  >>

\* B3._initialize_holidays: the _add_holiday calls, in source order.
B3_initialize_holidays ==
  <<
    <<<<2020, 1, 1>>, "New year">>,
    <<<<2020, 2, 24>>, "Carnaval Monday">>,
    <<<<2020, 2, 25>>, "Carnaval">>,
    <<<<2020, 4, 10>>, "Good Friday">>,
    <<<<2020, 4, 21>>, "Tiradentes' Day">>,
    <<<<2020, 5, 1>>, "Labour Day">>,
    <<<<2020, 6, 11>>, "Corpus Christi">>,
    <<<<2020, 7, 9>>, "Constitutional Revolution of 1932">>,
    <<<<2020, 9, 7>>, "Independence Day">>,
    <<<<2020, 10, 12>>, "Our Lady of Aparecida">>,
    <<<<2020, 11, 2>>, "All Souls' Day">>,
    <<<<2020, 11, 15>>, "Republic Day">>,
    <<<<2020, 12, 25>>, "Christmas Day">>,
    <<<<2020, 12, 31>>, "Last day of year">>,
    <<<<2021, 1, 1>>, "New year">>,
    <<<<2021, 1, 25>>, "Anniversary of the city of São Paulo">>,
    <<<<2021, 2, 15>>, "Carnaval Monday">>,
    <<<<2021, 2, 16>>, "Carnaval">>,
    <<<<2021, 4, 2>>, "Good Friday">>,
    <<<<2021, 4, 21>>, "Tiradentes' Day">>,
    <<<<2021, 5, 1>>, "Labour Day">>,
    <<<<2021, 6, 3>>, "Corpus Christi">>,
    <<<<2021, 7, 9>>, "Constitutional Revolution of 1932">>,
    <<<<2021, 9, 7>>, "Independence Day">>,
    <<<<2021, 10, 12>>, "Our Lady of Aparecida">>,
    <<<<2021, 11, 2>>, "All Souls' Day">>,
    <<<<2021, 11, 15>>, "Republic Day">>,
    <<<<2021, 12, 25>>, "Christmas Day">>,
    <<<<2021, 12, 31>>, "Last day of year">>,
    <<<<2022, 1, 1>>, "New year">>,
    <<<<2022, 2, 28>>, "Carnaval Monday">>,
    <<<<2022, 3, 1>>, "Carnaval">>,
    <<<<2022, 4, 15>>, "Good Friday">>,
    <<<<2022, 4, 21>>, "Tiradentes' Day">>,
    <<<<2022, 5, 1>>, "Labour Day">>,
    <<<<2022, 6, 16>>, "Corpus Christi">>,
    <<<<2022, 9, 7>>, "Independence Day">>,
    <<<<2022, 10, 12>>, "Our Lady of Aparecida">>,
    <<<<2022, 11, 2>>, "All Souls' Day">>,
    <<<<2022, 11, 15>>, "Republic Day">>,
    <<<<2022, 12, 25>>, "Christmas Day">>,
    <<<<2022, 12, 31>>, "Last day of year">>,
    <<<<2023, 1, 1>>, "New year">>,
    <<<<2023, 2, 21>>, "Carnaval Monday">>,
    <<<<2023, 2, 22>>, "Carnaval">>,
    <<<<2023, 4, 7>>, "Good Friday">>,
    <<<<2023, 4, 21>>, "Tiradentes' Day">>,
    <<<<2023, 5, 1>>, "Labour Day">>,
    <<<<2023, 6, 8>>, "Corpus Christi">>,
    <<<<2023, 9, 7>>, "Independence Day">>,
    <<<<2023, 10, 12>>, "Our Lady of Aparecida">>,
    <<<<2023, 11, 2>>, "All Souls' Day">>,
    <<<<2023, 11, 15>>, "Republic Day">>,
    <<<<2023, 12, 25>>, "Christmas Day">>,
    <<<<2023, 12, 31>>, "Last day of year">>,
    <<<<2024, 1, 1>>, "New year">>,
    <<<<2024, 2, 12>>, "Carnaval Monday">>,
    <<<<2024, 2, 13>>, "Carnaval">>,
    <<<<2024, 3, 29>>, "Good Friday">>,
    <<<<2024, 4, 21>>, "Tiradentes' Day">>,
    <<<<2024, 5, 1>>, "Labour Day">>,
    <<<<2024, 5, 30>>, "Corpus Christi">>,
    <<<<2024, 9, 7>>, "Independence Day">>,
    <<<<2024, 10, 12>>, "Our Lady of Aparecida">>,
    <<<<2024, 11, 2>>, "All Souls' Day">>,
    <<<<2024, 11, 15>>, "Republic Day">>,
    <<<<2024, 12, 25>>, "Christmas Day">>,
    <<<<2024, 12, 31>>, "Last day of year">>,
    <<<<2025, 1, 1>>, "New year">>,
    <<<<2025, 3, 3>>, "Carnaval Monday">>,
    <<<<2025, 3, 4>>, "Carnaval">>,
    <<<<2025, 4, 18>>, "Good Friday">>,
    <<<<2025, 4, 21>>, "Tiradentes' Day">>,
    <<<<2025, 5, 1>>, "Labour Day">>,
    <<<<2025, 6, 19>>, "Corpus Christi">>,
    <<<<2025, 9, 7>>, "Independence Day">>,
    <<<<2025, 10, 12>>, "Our Lady of Aparecida">>,
    <<<<2025, 11, 2>>, "All Souls' Day">>,
    <<<<2025, 11, 15>>, "Republic Day">>,
    <<<<2025, 12, 25>>, "Christmas Day">>,
    <<<<2025, 12, 31>>, "Last day of year">>,
    <<<<2026, 1, 1>>, "New year">>,
    <<<<2026, 2, 16>>, "Carnaval Monday">>,
    <<<<2026, 2, 17>>, "Carnaval">>,
    <<<<2026, 4, 3>>, "Good Friday">>,
    <<<<2026, 4, 21>>, "Tiradentes' Day">>,
    <<<<2026, 5, 1>>, "Labour Day">>,
    <<<<2026, 6, 11>>, "Corpus Christi">>,
    <<<<2026, 9, 7>>, "Independence Day">>,
    <<<<2026, 10, 12>>, "Our Lady of Aparecida">>,
    <<<<2026, 11, 2>>, "All Souls' Day">>,
    <<<<2026, 11, 15>>, "Republic Day">>,
    <<<<2026, 12, 25>>, "Christmas Day">>,
    <<<<2026, 12, 31>>, "Last day of year">>
  >>

\* SSE._initialize_holidays: the _add_holiday calls, in source order.
SSE_initialize_holidays ==
  <<
    <<<<2020, 1, 1>>, "New Year's Day">>,
    <<<<2020, 1, 24>>, "Chinese New Year">>,
    <<<<2020, 1, 27>>, "Chinese New Year Holiday">>,
    <<<<2020, 1, 28>>, "Chinese New Year Holiday">>,
    <<<<2020, 1, 29>>, "Chinese New Year Holiday">>,
    <<<<2020, 1, 30>>, "Chinese New Year Holiday">>,
    <<<<2020, 4, 6>>, "Qingming Festival">>,
    <<<<2020, 5, 1>>, "Labour Day">>,
    <<<<2020, 5, 4>>, "Labour Day Holiday">>,
    <<<<2020, 5, 5>>, "Labour Day Holiday">>,
    <<<<2020, 6, 25>>, "Dragon Boat Festival">>,
    <<<<2020, 6, 26>>, "Dragon Boat Festival Holiday">>,
    <<<<2020, 10, 1>>, "National Day">>,
    <<<<2020, 10, 2>>, "National Day Holiday">>,
    <<<<2020, 10, 5>>, "National Day Holiday">>,
    <<<<2020, 10, 6>>, "National Day Holiday">>,
    <<<<2020, 10, 7>>, "National Day Holiday">>,
    <<<<2020, 10, 8>>, "National Day Holiday">>,
    <<<<2021, 1, 1>>, "New Year's Day">>,
    <<<<2021, 2, 11>>, "Chinese New Year">>,
    <<<<2021, 2, 12>>, "Chinese New Year Holiday">>,
    <<<<2021, 2, 15>>, "Chinese New Year Holiday">>,
    <<<<2021, 2, 16>>, "Chinese New Year Holiday">>,
    <<<<2021, 2, 17>>, "Chinese New Year Holiday">>,
    <<<<2021, 4, 5>>, "Qingming Festival">>,
    <<<<2021, 5, 1>>, "Labour Day">>,
    <<<<2021, 5, 3>>, "Labour Day Holiday">>,
    <<<<2021, 5, 4>>, "Labour Day Holiday">>,
    <<<<2021, 5, 5>>, "Labour Day Holiday">>,
    <<<<2021, 6, 14>>, "Dragon Boat Festival">>,
    <<<<2021, 9, 20>>, "Mid-Autumn Festival">>,
    <<<<2021, 9, 21>>, "Mid-Autumn Festival Holiday">>,
    <<<<2021, 10, 1>>, "National Day">>,
    <<<<2021, 10, 4>>, "National Day Holiday">>,
    <<<<2021, 10, 5>>, "National Day Holiday">>,
    <<<<2021, 10, 6>>, "National Day Holiday">>,
    <<<<2021, 10, 7>>, "National Day Holiday">>,
    <<<<2022, 1, 1>>, "New Year's Day">>,
    <<<<2022, 1, 3>>, "New Year Holiday">>,
    <<<<2022, 1, 31>>, "Chinese New Year">>,
    <<<<2022, 2, 1>>, "Chinese New Year Holiday">>,
    <<<<2022, 2, 2>>, "Chinese New Year Holiday">>,
    <<<<2022, 2, 3>>, "Chinese New Year Holiday">>,
    <<<<2022, 2, 4>>, "Chinese New Year Holiday">>,
    <<<<2022, 4, 4>>, "Qingming Festival">>,
    <<<<2022, 4, 5>>, "Qingming Festival Holiday">>,
    <<<<2022, 5, 2>>, "Labour Day">>,
    <<<<2022, 5, 3>>, "Labour Day Holiday">>,
    <<<<2022, 5, 4>>, "Labour Day Holiday">>,
    <<<<2022, 6, 3>>, "Dragon Boat Festival">>,
    <<<<2022, 9, 12>>, "Mid-Autumn Festival">>,
    <<<<2022, 10, 3>>, "National Day">>,
    <<<<2022, 10, 4>>, "National Day Holiday">>,
    <<<<2022, 10, 5>>, "National Day Holiday">>,
    <<<<2022, 10, 6>>, "National Day Holiday">>,
    <<<<2022, 10, 7>>, "National Day Holiday">>,
    <<<<2023, 1, 1>>, "New Year's Day">>,
    <<<<2023, 1, 2>>, "New Year Holiday">>,
    <<<<2023, 1, 23>>, "Chinese New Year">>,
    <<<<2023, 1, 24>>, "Chinese New Year Holiday">>,
    <<<<2023, 1, 25>>, "Chinese New Year Holiday">>,
    <<<<2023, 1, 26>>, "Chinese New Year Holiday">>,
    <<<<2023, 1, 27>>, "Chinese New Year Holiday">>,
    <<<<2023, 4, 5>>, "Qingming Festival">>,
    <<<<2023, 5, 1>>, "Labour Day">>,
    <<<<2023, 5, 2>>, "Labour Day Holiday">>,
    <<<<2023, 5, 3>>, "Labour Day Holiday">>,
    <<<<2023, 6, 22>>, "Dragon Boat Festival">>,
    <<<<2023, 6, 23>>, "Dragon Boat Festival Holiday">>,
    <<<<2023, 9, 29>>, "Mid-Autumn Festival">>,
    <<<<2023, 10, 2>>, "National Day">>,
    <<<<2023, 10, 3>>, "National Day Holiday">>,
    <<<<2023, 10, 4>>, "National Day Holiday">>,
    <<<<2023, 10, 5>>, "National Day Holiday">>,
    <<<<2023, 10, 6>>, "National Day Holiday">>,
    <<<<2024, 1, 1>>, "New Year's Day">>,
    <<<<2024, 2, 10>>, "Chinese New Year">>,
    <<<<2024, 2, 11>>, "Chinese New Year Holiday">>,
    <<<<2024, 2, 12>>, "Chinese New Year Holiday">>,
    <<<<2024, 2, 13>>, "Chinese New Year Holiday">>,
    <<<<2024, 2, 14>>, "Chinese New Year Holiday">>,
    <<<<2024, 4, 4>>, "Qingming Festival">>,
    <<<<2024, 4, 5>>, "Qingming Festival Holiday">>,
    <<<<2024, 5, 1>>, "Labour Day">>,
    <<<<2024, 5, 2>>, "Labour Day Holiday">>,
    <<<<2024, 5, 3>>, "Labour Day Holiday">>,
    <<<<2024, 6, 10>>, "Dragon Boat Festival">>,
    <<<<2024, 9, 17>>, "Mid-Autumn Festival">>,
    <<<<2024, 10, 1>>, "National Day">>,
    <<<<2024, 10, 2>>, "National Day Holiday">>,
    <<<<2024, 10, 3>>, "National Day Holiday">>,
    <<<<2024, 10, 4>>, "National Day Holiday">>,
    <<<<2024, 10, 7>>, "National Day Holiday">>,
    <<<<2025, 1, 1>>, "New Year's Day">>,
    <<<<2025, 1, 29>>, "Chinese New Year">>,
    <<<<2025, 1, 30>>, "Chinese New Year Holiday">>,
    <<<<2025, 1, 31>>, "Chinese New Year Holiday">>,
    <<<<2025, 2, 3>>, "Chinese New Year Holiday">>,
    <<<<2025, 2, 4>>, "Chinese New Year Holiday">>,
    <<<<2025, 4, 4>>, "Qingming Festival">>,
    <<<<2025, 5, 1>>, "Labour Day">>,
    <<<<2025, 5, 2>>, "Labour Day Holiday">>,
    <<<<2025, 5, 5>>, "Labour Day Holiday">>,
    <<<<2025, 5, 31>>, "Dragon Boat Festival">>,
    <<<<2025, 10, 1>>, "National Day">>,
    <<<<2025, 10, 2>>, "National Day Holiday">>,
    <<<<2025, 10, 3>>, "National Day Holiday">>,
    <<<<2025, 10, 6>>, "National Day Holiday">>,
    <<<<2025, 10, 7>>, "National Day Holiday">>,
    <<<<2026, 1, 1>>, "New year">>,
    <<<<2026, 1, 29>>, "Chinese New Year">>,
    <<<<2026, 1, 30>>, "Chinese New Year Holiday">>,
    <<<<2026, 1, 31>>, "Chinese New Year Holiday">>,
    <<<<2026, 2, 3>>, "Chinese New Year Holiday">>,
    <<<<2026, 2, 4>>, "Chinese New Year Holiday">>,
    <<<<2026, 4, 4>>, "Qingming Festival">>,
    <<<<2026, 5, 1>>, "Labour Day">>,
    <<<<2026, 5, 2>>, "Labour Day Holiday">>,
    <<<<2026, 5, 5>>, "Labour Day Holiday">>,
    <<<<2026, 5, 31>>, "Dragon Boat Festival">>,
    <<<<2026, 10, 1>>, "National Day">>,
    <<<<2026, 10, 2>>, "National Day Holiday">>,
    <<<<2026, 10, 3>>, "National Day Holiday">>,
    <<<<2026, 10, 6>>, "National Day Holiday">>,
    <<<<2026, 10, 7>>, "National Day Holiday">>
  >>

\* JPX._initialize_holidays: the _add_holiday calls, in source order.
JPX_initialize_holidays ==
  <<
    <<<<2020, 1, 1>>, "New Year's Day">>,
    <<<<2020, 1, 2>>, "New Year's Holiday">>,
    <<<<2020, 1, 3>>, "New Year's Holiday">>,
    <<<<2020, 1, 13>>, "Coming of Age Day">>,
    <<<<2020, 2, 11>>, "National Foundation Day">>,
    <<<<2020, 2, 24>>, "Emperor's Birthday">>,
    <<<<2020, 3, 20>>, "Vernal Equinox Day">>,
    <<<<2020, 4, 29>>, "Showa Day">>,
    <<<<2020, 5, 4>>, "Greenery Day">>,
    <<<<2020, 5, 5>>, "Children's Day">>,
    <<<<2020, 5, 6>>, "Constitution Memorial Day observed">>,
    <<<<2020, 7, 23>>, "Marine Day">>,
    <<<<2020, 7, 24>>, "Health and Sports Day">>,
    <<<<2020, 8, 10>>, "Mountain Day">>,
    <<<<2020, 9, 21>>, "Respect for the Aged Day">>,
    <<<<2020, 9, 22>>, "Autumnal Equinox Day">>,
    <<<<2020, 11, 3>>, "Culture Day">>,
    <<<<2020, 11, 23>>, "Labor Thanksgiving Day">>,
    <<<<2020, 12, 31>>, "New Year's Eve">>,
    <<<<2021, 1, 1>>, "New Year's Day">>,
    <<<<2021, 1, 2>>, "New Year's Holiday">>,
    <<<<2021, 1, 3>>, "New Year's Holiday">>,
    <<<<2021, 1, 11>>, "Coming of Age Day">>,
    <<<<2021, 2, 11>>, "National Foundation Day">>,
    <<<<2021, 2, 23>>, "Emperor's Birthday">>,
    <<<<2021, 3, 20>>, "Vernal Equinox Day">>,
    <<<<2021, 4, 29>>, "Showa Day">>,
    <<<<2021, 5, 3>>, "Constitution Memorial Day">>,
    <<<<2021, 5, 4>>, "Greenery Day">>,
    <<<<2021, 5, 5>>, "Children's Day">>,
    <<<<2021, 7, 22>>, "Marine Day">>,
    <<<<2021, 7, 23>>, "Health and Sports Day">>,
    <<<<2021, 8, 8>>, "Mountain Day">>,
    <<<<2021, 8, 9>>, "Mountain Day observed">>,
    <<<<2021, 9, 20>>, "Respect for the Aged Day">>,
    <<<<2021, 9, 23>>, "Autumnal Equinox Day">>,
    <<<<2021, 11, 3>>, "Culture Day">>,
    <<<<2021, 11, 23>>, "Labor Thanksgiving Day">>,
    <<<<2021, 12, 31>>, "New Year's Eve">>,
    <<<<2022, 1, 1>>, "New Year's Day">>,
    <<<<2022, 1, 3>>, "New Year's Holiday">>,
    <<<<2022, 1, 10>>, "Coming of Age Day">>,
    <<<<2022, 2, 11>>, "National Foundation Day">>,
    <<<<2022, 2, 23>>, "Emperor's Birthday">>,
    <<<<2022, 3, 21>>, "Vernal Equinox Day">>,
    <<<<2022, 4, 29>>, "Showa Day">>,
    <<<<2022, 5, 3>>, "Constitution Memorial Day">>,
    <<<<2022, 5, 4>>, "Greenery Day">>,
    <<<<2022, 5, 5>>, "Children's Day">>,
    <<<<2022, 7, 18>>, "Marine Day">>,
    <<<<2022, 8, 11>>, "Mountain Day">>,
    <<<<2022, 9, 19>>, "Respect for the Aged Day">>,
    <<<<2022, 9, 23>>, "Autumnal Equinox Day">>,
    <<<<2022, 10, 10>>, "Health and Sports Day">>,
    <<<<2022, 11, 3>>, "Culture Day">>,
    <<<<2022, 11, 23>>, "Labor Thanksgiving Day">>,
    <<<<2022, 12, 31>>, "New Year's Eve">>,
    <<<<2023, 1, 1>>, "New Year's Day">>,
    <<<<2023, 1, 2>>, "New Year's Holiday">>,
    <<<<2023, 1, 3>>, "New Year's Holiday">>,
    <<<<2023, 1, 9>>, "Coming of Age Day">>,
    <<<<2023, 2, 11>>, "National Foundation Day">>,
    <<<<2023, 2, 23>>, "Emperor's Birthday">>,
    <<<<2023, 3, 21>>, "Vernal Equinox Day">>,
    <<<<2023, 4, 29>>, "Showa Day">>,
    <<<<2023, 5, 3>>, "Constitution Memorial Day">>,
    <<<<2023, 5, 4>>, "Greenery Day">>,
    <<<<2023, 5, 5>>, "Children's Day">>,
    <<<<2023, 7, 17>>, "Marine Day">>,
    <<<<2023, 8, 11>>, "Mountain Day">>,
    <<<<2023, 9, 18>>, "Respect for the Aged Day">>,
    <<<<2023, 9, 23>>, "Autumnal Equinox Day">>,
    <<<<2023, 10, 9>>, "Health and Sports Day">>,
    <<<<2023, 11, 3>>, "Culture Day">>,
    <<<<2023, 11, 23>>, "Labor Thanksgiving Day">>,
    <<<<2023, 12, 31>>, "New Year's Eve">>,
    <<<<2024, 1, 1>>, "New Year's Day">>,
    <<<<2024, 1, 2>>, "New Year's Holiday">>,
    <<<<2024, 1, 3>>, "New Year's Holiday">>,
    <<<<2024, 1, 8>>, "Coming of Age Day">>,
    <<<<2024, 2, 11>>, "National Foundation Day">>,
    <<<<2024, 2, 12>>, "National Foundation Day observed">>,
    <<<<2024, 2, 23>>, "Emperor's Birthday">>,
    <<<<2024, 3, 20>>, "Vernal Equinox Day">>,
    <<<<2024, 4, 29>>, "Showa Day">>,
    <<<<2024, 5, 3>>, "Constitution Memorial Day">>,
    <<<<2024, 5, 4>>, "Greenery Day">>,
    <<<<2024, 5, 5>>, "Children's Day">>,
    <<<<2024, 5, 6>>, "Children's Day observed">>,
    <<<<2024, 7, 15>>, "Marine Day">>,
    <<<<2024, 8, 11>>, "Mountain Day">>,
    <<<<2024, 8, 12>>, "Mountain Day observed">>,
    <<<<2024, 9, 16>>, "Respect for the Aged Day">>,
    <<<<2024, 9, 22>>, "Autumnal Equinox Day">>,
    <<<<2024, 9, 23>>, "Autumnal Equinox Day observed">>,
    <<<<2024, 10, 14>>, "Health and Sports Day">>,
    <<<<2024, 11, 3>>, "Culture Day">>,
    <<<<2024, 11, 4>>, "Culture Day observed">>,
    <<<<2024, 11, 23>>, "Labor Thanksgiving Day">>,
    <<<<2024, 12, 31>>, "New Year's Eve">>,
    <<<<2025, 1, 1>>, "New Year's Day">>,
    <<<<2025, 1, 2>>, "New Year's Holiday">>,
    <<<<2025, 1, 3>>, "New Year's Holiday">>,
    <<<<2025, 1, 13>>, "Coming of Age Day">>,
    <<<<2025, 2, 11>>, "National Foundation Day">>,
    <<<<2025, 2, 23>>, "Emperor's Birthday">>,
    <<<<2025, 2, 24>>, "Emperor's Birthday observed">>,
    <<<<2025, 3, 20>>, "Vernal Equinox Day">>,
    <<<<2025, 4, 29>>, "Showa Day">>,
    <<<<2025, 5, 3>>, "Constitution Memorial Day">>,
    <<<<2025, 5, 4>>, "Greenery Day">>,
    <<<<2025, 5, 5>>, "Children's Day">>,
    <<<<2025, 5, 6>>, "Children's Day observed">>,
    <<<<2025, 7, 21>>, "Marine Day">>,
    <<<<2025, 8, 11>>, "Mountain Day">>,
    <<<<2025, 9, 15>>, "Respect for the Aged Day">>,
    <<<<2025, 9, 23>>, "Autumnal Equinox Day">>,
    <<<<2025, 10, 13>>, "Health and Sports Day">>,
    <<<<2025, 11, 3>>, "Culture Day">>,
    <<<<2025, 11, 23>>, "Labor Thanksgiving Day">>,
    <<<<2025, 11, 24>>, "Labor Thanksgiving Day observed">>,
    <<<<2025, 12, 31>>, "New Year's Eve">>,
    <<<<2026, 1, 1>>, "New Year's Day">>,
    <<<<2026, 1, 2>>, "New Year's Holiday">>,
    <<<<2026, 1, 3>>, "New Year's Holiday">>,
    <<<<2026, 1, 13>>, "Coming of Age Day">>,
    <<<<2026, 2, 11>>, "National Foundation Day">>,
    <<<<2026, 2, 23>>, "Emperor's Birthday">>,
    <<<<2026, 2, 24>>, "Emperor's Birthday observed">>,
    <<<<2026, 3, 20>>, "Vernal Equinox Day">>,
    <<<<2026, 4, 29>>, "Showa Day">>,
    <<<<2026, 5, 3>>, "Constitution Memorial Day">>,
    <<<<2026, 5, 4>>, "Greenery Day">>,
    <<<<2026, 5, 5>>, "Children's Day">>,
    <<<<2026, 5, 6>>, "Children's Day observed">>,
    <<<<2026, 7, 21>>, "Marine Day">>,
    <<<<2026, 8, 11>>, "Mountain Day">>,
    <<<<2026, 9, 15>>, "Respect for the Aged Day">>,
    <<<<2026, 9, 23>>, "Autumnal Equinox Day">>,
    <<<<2026, 10, 13>>, "Health and Sports Day">>,
    <<<<2026, 11, 3>>, "Culture Day">>,
    <<<<2026, 11, 23>>, "Labor Thanksgiving Day">>,
    <<<<2026, 11, 24>>, "Labor Thanksgiving Day observed">>,
    <<<<2026, 12, 31>>, "New Year's Eve">>
  >>

\* The dataset of CME without its last entry.
initialize_holidays_cme_is_shorter(cls) ==
  CASE cls = "NYSE" -> NYSE_initialize_holidays
    [] cls = "CME"  -> SubSeq(CME_initialize_holidays, 1, Len(CME_initialize_holidays) - 1)
    [] cls = "B3"   -> B3_initialize_holidays
    [] cls = "SSE"  -> SSE_initialize_holidays
    [] cls = "JPX"  -> JPX_initialize_holidays

\* A slip in the CME class: its _initialize_holidays is a copy of B3's.
initialize_holidays_cme_is_b3(cls) ==
  CASE cls = "NYSE" -> NYSE_initialize_holidays
    [] cls = "CME"  -> B3_initialize_holidays
    [] cls = "B3"   -> B3_initialize_holidays
    [] cls = "SSE"  -> SSE_initialize_holidays
    [] cls = "JPX"  -> JPX_initialize_holidays

\* The _initialize_holidays of the exchange class named cls.
initialize_holidays(cls) ==
  CASE cls = "NYSE" -> NYSE_initialize_holidays
    [] cls = "CME"  -> CME_initialize_holidays
    [] cls = "B3"   -> B3_initialize_holidays
    [] cls = "SSE"  -> SSE_initialize_holidays
    [] cls = "JPX"  -> JPX_initialize_holidays

----------------------------------------------------------------------------
\* The classes with a StockExchange that defines an empty
\* _initialize_holidays for the subclasses to override.
ClassDict_with_base_stub(cls) ==
  IF cls = "StockExchange"
  THEN {"__init__", "_add_holiday", "holidays", "get_holidays_by_year",
        "is_holiday", "_initialize_holidays"}
  ELSE {"_initialize_holidays"}

\* The classes: the names each class body defines, and the class in which a
\* name looked up on an instance of cls is found (the class itself, then its
\* base StockExchange).
ClassDict(cls) ==
  IF cls = "StockExchange"
  THEN {"__init__", "_add_holiday", "holidays", "get_holidays_by_year", "is_holiday"}
  ELSE {"_initialize_holidays"}

Resolve(cls, name) ==
  IF name \in ClassDict(cls) THEN cls
  ELSE IF cls # "StockExchange" /\ name \in ClassDict("StockExchange")
  THEN "StockExchange"
  ELSE "AttributeError"

\* The year of a date without its century (holiday_date.year % 100).
DateYear_without_century(d) == d[1] % 100

\* datetime.date: the year field and the ordering (year, month, day).
DateYear(d) == d[1]

DateLT(a, b) ==
  \/ a[1] < b[1]
  \/ a[1] = b[1] /\ a[2] < b[2]
  \/ a[1] = b[1] /\ a[2] = b[2] /\ a[3] < b[3]

\* dict: membership, dict.get(k, default), dict.values().
DictHas(dict, k) == \E i \in 1..Len(dict) : dict[i][1] = k

\* A slip in the lookup: the first item of the dict is never found.
DictGet_skips_first_item(dict, k, default) ==
  IF \E i \in 2..Len(dict) : dict[i][1] = k
  THEN dict[CHOOSE i \in 2..Len(dict) : dict[i][1] = k][2]
  ELSE default

DictGet(dict, k, default) ==
  IF DictHas(dict, k)
  THEN dict[CHOOSE i \in 1..Len(dict) : dict[i][1] = k][2]
  ELSE default

DictValues(dict) == [i \in 1..Len(dict) |-> dict[i][2]]

\* sorted(list, key=lambda x: x[0]): the stable ascending sort on the date of
\* the entry. A list that is one non-descending run comes back as it is (the
\* run detection of the list sort); otherwise the entry at index i goes behind
\* every entry of an earlier date and behind the entries of the same date
\* that stand before it in list.
IsRun(list) ==
  \A i \in 1..(Len(list) - 1) : ~DateLT(list[i + 1][1], list[i][1])

SortedPosition(list, i) ==
  1 + Cardinality({j \in 1..Len(list) :
                     \/ DateLT(list[j][1], list[i][1])
                     \/ list[j][1] = list[i][1] /\ j < i})

sorted(list) ==
  IF IsRun(list)
  THEN list
  ELSE LET placed == {<<SortedPosition(list, i), list[i]>> : i \in 1..Len(list)}
       IN [p \in 1..Len(list) |-> (CHOOSE e \in placed : e[1] = p)[2]]

----------------------------------------------------------------------------
\* A slip in _add_holiday: the date is not added to the set of dates.
add_holiday_without_date_set(self, holiday_date, description) ==
  LET year == DateYear(holiday_date)
      d1   == IF ~DictHas(self.holidays_by_year, year)
              THEN Append(self.holidays_by_year, <<year, <<>>>>)
              ELSE self.holidays_by_year
      i    == CHOOSE j \in 1..Len(d1) : d1[j][1] = year
      d2   == [d1 EXCEPT ![i] = <<year, Append(@[2], <<holiday_date, description>>)>>]
  IN [self EXCEPT !.holidays_by_year = d2]

\* A slip in _add_holiday: the entry is appended to the year's list twice.
add_holiday_appends_twice(self, holiday_date, description) ==
  LET year == DateYear(holiday_date)
      d1   == IF ~DictHas(self.holidays_by_year, year)
              THEN Append(self.holidays_by_year, <<year, <<>>>>)
              ELSE self.holidays_by_year
      i    == CHOOSE j \in 1..Len(d1) : d1[j][1] = year
      d2   == [d1 EXCEPT ![i] = <<year, @[2] \o << <<holiday_date, description>>,
                                                  <<holiday_date, description>> >> >>]
  IN [self EXCEPT !.holidays_by_year = d2,
                  !.holiday_dates = @ \cup {holiday_date}]

\* _add_holiday that files the entry under the year before the year of the
\* date (a slip in the key).
add_holiday_under_previous_year(self, holiday_date, description) ==
  LET year == DateYear(holiday_date) - 1
      d1 == IF ~DictHas(self.holidays_by_year, year)
            THEN Append(self.holidays_by_year, <<year, <<>>>>)
            ELSE self.holidays_by_year
      i  == CHOOSE j \in 1..Len(d1) : d1[j][1] = year
      d2 == [d1 EXCEPT ![i] = <<year, Append(@[2], <<holiday_date, description>>)>>]
  IN [self EXCEPT !.holidays_by_year = d2,
                  !.holiday_dates = @ \cup {holiday_date}]

\* _add_holiday that records in the date set only the dates that come with a
\* description (if description: self._holiday_dates.add(holiday_date)).
add_holiday_skips_undescribed(self, holiday_date, description) ==
  LET year == DateYear(holiday_date)
      d1 == IF ~DictHas(self.holidays_by_year, year)
            THEN Append(self.holidays_by_year, <<year, <<>>>>)
            ELSE self.holidays_by_year
      i  == CHOOSE j \in 1..Len(d1) : d1[j][1] = year
      d2 == [d1 EXCEPT ![i] = <<year, Append(@[2], <<holiday_date, description>>)>>]
  IN [self EXCEPT !.holidays_by_year = d2,
                  !.holiday_dates = IF description = "" THEN @ ELSE @ \cup {holiday_date}]

\* StockExchange._add_holiday
add_holiday(self, holiday_date, description) ==
  LET year == DateYear(holiday_date)
      d1   == IF ~DictHas(self.holidays_by_year, year)
              THEN Append(self.holidays_by_year, <<year, <<>>>>)
              ELSE self.holidays_by_year
      i    == CHOOSE j \in 1..Len(d1) : d1[j][1] = year
      d2   == [d1 EXCEPT ![i] = <<year, Append(@[2], <<holiday_date, description>>)>>]
  IN [self EXCEPT !.holidays_by_year = d2,
                  !.holiday_dates = @ \cup {holiday_date}]

\* StockExchange.__init__, up to the call of _initialize_holidays: the two
\* empty indexes of a new instance of the class cls.
StockExchange_init(cls) ==
  [cls |-> cls, holidays_by_year |-> <<>>, holiday_dates |-> {}]

\* StockExchange.holidays (property)
RECURSIVE extend_all(_, _)
extend_all(values, n) ==
  IF n = 0 THEN <<>> ELSE extend_all(values, n - 1) \o values[n]

\* holidays without the sort: the per-year lists one after the other, in the
\* insertion order of the dict.
holidays_unsorted(self) ==
  extend_all(DictValues(self.holidays_by_year), Len(self.holidays_by_year))

\* A slip in holidays: the return stands inside the loop, after the first
\* year's list.
holidays_returns_in_loop(self) ==
  IF self.holidays_by_year = <<>>
  THEN <<>>
  ELSE sorted(DictValues(self.holidays_by_year)[1])

holidays(self) ==
  sorted(extend_all(DictValues(self.holidays_by_year), Len(self.holidays_by_year)))

\* get_holidays_by_year sorting the entries of every year (the year is not
\* used).
get_holidays_by_year_body_of_all_years(self, year) ==
  [exc |-> "none",
   ret |-> sorted(extend_all(DictValues(self.holidays_by_year),
                             Len(self.holidays_by_year)))]

\* A slip in get_holidays_by_year: the year's list is read by subscript, which
\* raises KeyError for a year that is no key.
get_holidays_by_year_body_subscript(self, year) ==
  IF DictHas(self.holidays_by_year, year)
  THEN [exc |-> "none", ret |-> sorted(DictGet(self.holidays_by_year, year, <<>>))]
  ELSE [exc |-> "KeyError", ret |-> None]

\* The body of StockExchange.get_holidays_by_year (under the cache).
\* A call returns [exc, ret]: exc is "none" when the call returns ret.
get_holidays_by_year_body(self, year) ==
  [exc |-> "none", ret |-> sorted(DictGet(self.holidays_by_year, year, <<>>))]

\* is_holiday with an override in B3 that also closes the exchange on every
\* 26 December.
is_holiday_overridden_in_b3(self, check_date) ==
  IF self.cls = "B3"
  THEN check_date \in self.holiday_dates \/ (check_date[2] = 12 /\ check_date[3] = 26)
  ELSE check_date \in self.holiday_dates

\* A slip in is_holiday: the year of the date is looked up in the per-year
\* index.
is_holiday_by_year(self, check_date) ==
  DictHas(self.holidays_by_year, DateYear(check_date))

\* StockExchange.is_holiday
is_holiday(self, check_date) == check_date \in self.holiday_dates

----------------------------------------------------------------------------
\* A slip in the cache key: the year is left out of it.
CacheIndex_ignores_year(c, key) ==
  IF \E i \in 1..Len(c) : c[i].key[1] = key[1]
  THEN CHOOSE i \in 1..Len(c) : c[i].key[1] = key[1]
  ELSE 0

\* A cache key that leaves the instance out (as with instances that compare
\* equal to each other).
CacheIndex_ignores_instance(c, key) ==
  IF \E i \in 1..Len(c) : c[i].key[2] = key[2]
  THEN CHOOSE i \in 1..Len(c) : c[i].key[2] = key[2]
  ELSE 0

\* functools.lru_cache around get_holidays_by_year: one cache for the class,
\* keyed by (self, year), kept from least to most recently used, and the
\* count of the calls it has answered (cache_info().hits).
\* CacheIndex is the place of a key in the cache, 0 when it is not there.
CacheIndex(c, key) ==
  IF \E i \in 1..Len(c) : c[i].key = key
  THEN CHOOSE i \in 1..Len(c) : c[i].key = key
  ELSE 0

CacheRemove(c, i) == SubSeq(c, 1, i - 1) \o SubSeq(c, i + 1, Len(c))

\* A slip in the cache: a hit returns the value of the newest entry.
get_holidays_by_year_hit_returns_newest(c, cals, inst, year) ==
  LET key == <<inst, year>>
      i   == CacheIndex(c, key)
      r   == get_holidays_by_year_body(cals[inst], year)
      e   == [key |-> key, val |-> r.ret]
  IN IF i # 0
     THEN [exc |-> "none", ret |-> c[Len(c)].val, hit |-> TRUE,
           cache |-> Append(CacheRemove(c, i), c[i])]
     ELSE [exc |-> "none", ret |-> r.ret, hit |-> FALSE,
           cache |-> IF Len(c) >= CacheMaxSize
                     THEN Append(Tail(c), e)
                     ELSE Append(c, e)]

\* A cache in which a hit leaves the entry where it is: the oldest entry is
\* dropped, not the least recently used one.
get_holidays_by_year_hit_keeps_order(c, cals, inst, year) ==
  LET key == <<inst, year>>
      i   == CacheIndex(c, key)
      r   == get_holidays_by_year_body(cals[inst], year)
      e   == [key |-> key, val |-> r.ret]
  IN IF i # 0
     THEN [exc |-> "none", ret |-> c[i].val, hit |-> TRUE, cache |-> c]
     ELSE [exc |-> "none", ret |-> r.ret, hit |-> FALSE,
           cache |-> IF Len(c) >= CacheMaxSize
                     THEN Append(Tail(c), e)
                     ELSE Append(c, e)]

\* The call get_holidays_by_year(self, year) on the calendar with reference
\* inst: [exc, ret, cache, hit], cache being the cache after the call and hit
\* telling that the cache answered it.
get_holidays_by_year(c, cals, inst, year) ==
  LET key == <<inst, year>>
      i   == CacheIndex(c, key)
      r   == get_holidays_by_year_body(cals[inst], year)
      e   == [key |-> key, val |-> r.ret]
  IN IF i # 0
     THEN [exc |-> "none", ret |-> c[i].val, hit |-> TRUE,
           cache |-> Append(CacheRemove(c, i), c[i])]
     ELSE IF r.exc # "none"
     THEN [exc |-> r.exc, ret |-> None, hit |-> FALSE, cache |-> c]
     ELSE [exc |-> "none", ret |-> r.ret, hit |-> FALSE,
           cache |-> IF Len(c) >= CacheMaxSize
                     THEN Append(Tail(c), e)
                     ELSE Append(c, e)]

\* The wrapper after a miss, back from the method with its value: when the
\* key has come into the cache during the call, the cache is left as it is;
\* otherwise the value is stored, in place of the least recently used entry
\* when the cache is full. The wrapper returns the value of the call either
\* way.
CacheStore(c, key, val) ==
  IF CacheIndex(c, key) # 0
  THEN c
  ELSE IF Len(c) >= CacheMaxSize
  THEN Append(Tail(c), [key |-> key, val |-> val])
  ELSE Append(c, [key |-> key, val |-> val])

----------------------------------------------------------------------------
\* get_holidays without the test for None: the attribute access on None
\* raises AttributeError.
Holidays_get_holidays_strict(self, cals) ==
  IF self.stock_exchange = None
  THEN [exc |-> "AttributeError", ret |-> None]
  ELSE [exc |-> "none", ret |-> holidays(cals[self.stock_exchange])]

\* Holidays.get_holidays
Holidays_get_holidays(self, cals) ==
  IF self.stock_exchange = None
  THEN [exc |-> "none", ret |-> <<>>]
  ELSE [exc |-> "none", ret |-> holidays(cals[self.stock_exchange])]

\* Holidays.get_holidays_by_year
Holidays_get_holidays_by_year(self, c, cals, year) ==
  IF self.stock_exchange = None
  THEN [exc |-> "none", ret |-> <<>>, hit |-> FALSE, cache |-> c]
  ELSE get_holidays_by_year(c, cals, self.stock_exchange, year)

\* The strict variant of is_date_holiday: no test for None before the
\* attribute access, which raises AttributeError on None.
Holidays_is_date_holiday_strict(self, cals, date) ==
  IF self.stock_exchange = None
  THEN [exc |-> "AttributeError", ret |-> None]
  ELSE [exc |-> "none", ret |-> is_holiday(cals[self.stock_exchange], date)]

\* is_date_holiday testing the date against the holidays list: the list holds
\* (date, description) tuples, which no date equals.
Holidays_is_date_holiday_in_holidays(self, cals, date) ==
  IF self.stock_exchange = None
  THEN [exc |-> "none", ret |-> FALSE]
  ELSE [exc |-> "none",
        ret |-> \E k \in 1..Len(holidays(cals[self.stock_exchange])) :
                  holidays(cals[self.stock_exchange])[k] = date]

\* Holidays.is_date_holiday
Holidays_is_date_holiday(self, cals, date) ==
  IF self.stock_exchange = None
  THEN [exc |-> "none", ret |-> FALSE]
  ELSE [exc |-> "none", ret |-> is_holiday(cals[self.stock_exchange], date)]

----------------------------------------------------------------------------
\* The years and dates the callers pass.
QueryYears == MinYear..MaxYear

\* Dates the tests probe by name: a holiday of every exchange, a holiday of
\* three of them, and a holiday of none.
TestDates == {<<2020, 1, 1>>, <<2020, 12, 25>>, <<2020, 12, 26>>}

\* The calendar: days of a month, and the day after a date.
IsLeap(y) == (y % 4 = 0 /\ y % 100 # 0) \/ y % 400 = 0

DaysInMonth(y, m) ==
  IF m = 2 THEN (IF IsLeap(y) THEN 29 ELSE 28)
  ELSE IF m \in {4, 6, 9, 11} THEN 30 ELSE 31

NextDay(d) ==
  IF d[3] < DaysInMonth(d[1], d[2]) THEN <<d[1], d[2], d[3] + 1>>
  ELSE IF d[2] < 12 THEN <<d[1], d[2] + 1, 1>>
  ELSE <<d[1] + 1, 1, 1>>

----------------------------------------------------------------------------
\* The threads of the callers. A thread is idle (between calls, holding what
\* its last call returned), or inside the lru_cache wrapper of
\* get_holidays_by_year after a miss: about to run the method ("call"), or
\* back from it with its value val and about to store it ("store").
Threads == 1..NumThreads

\* No calendar constructed, no constructor running, no facade constructed,
\* the cache empty, no call made, no result kept by the caller,
\* every thread idle.
Init ==
  /\ calendars = <<>>
  /\ init_pc = 0
  /\ facade = [created |-> FALSE, stock_exchange |-> None]
  /\ cache = <<>>
  /\ cache_hits = 0
  /\ result = [op |-> "none", arg |-> None, exc |-> "none", ret |-> None]
  /\ kept = [op |-> "none", arg |-> None, exc |-> "none", ret |-> None]
  /\ threads = [t \in Threads |->
                  [pc |-> "idle", op |-> "none", arg |-> None, val |-> None,
                   exc |-> "none", ret |-> None]]

\* cls() enters StockExchange.__init__: the new calendar is the last of
\* calendars, and init_pc is the index of the next _add_holiday call of its
\* _initialize_holidays (0 when no constructor runs).
NewExchange(cls) ==
  /\ calendars = <<>>
  /\ init_pc = 0
  /\ ~facade.created
  /\ calendars' = Append(calendars, StockExchange_init(cls))
  /\ init_pc' = 1
  /\ UNCHANGED <<facade, cache, cache_hits, result, kept, threads>>

\* The next self._add_holiday(date, description) of _initialize_holidays; the
\* constructor returns after the last one.
AddHoliday ==
  /\ init_pc # 0
  /\ LET self  == calendars[Len(calendars)]
         calls == initialize_holidays(self.cls)
     IN /\ calendars' = [calendars EXCEPT ![Len(calendars)] =
                           add_holiday(self, calls[init_pc][1], calls[init_pc][2])]
        /\ init_pc' = IF init_pc = Len(calls) THEN 0 ELSE init_pc + 1
  /\ UNCHANGED <<facade, cache, cache_hits, result, kept, threads>>

\* StockExchange(): __init__ sets the two indexes and calls
\* self._initialize_holidays(), a name that no class of a StockExchange
\* instance defines: the call raises AttributeError out of __init__ and the
\* caller gets no object. Were the name defined in StockExchange, with a body
\* that adds nothing, the caller would get a calendar with empty indexes.
NewStockExchange ==
  /\ calendars = <<>>
  /\ init_pc = 0
  /\ ~facade.created
  /\ result.op = "none"
  /\ IF Resolve("StockExchange", "_initialize_holidays") = "AttributeError"
     THEN /\ result' = [op |-> "StockExchange", arg |-> None,
                        exc |-> "AttributeError", ret |-> None]
          /\ UNCHANGED calendars
     ELSE /\ calendars' = Append(calendars, StockExchange_init("StockExchange"))
          /\ result' = [op |-> "StockExchange", arg |-> None,
                        exc |-> "none", ret |-> Len(calendars) + 1]
  /\ UNCHANGED <<init_pc, facade, cache, cache_hits, kept, threads>>

\* Holidays(exchange=x): x is None or a constructed calendar.
NewHolidays(x) ==
  /\ init_pc = 0
  /\ ~facade.created
  /\ facade' = [created |-> TRUE, stock_exchange |-> x]
  /\ UNCHANGED <<calendars, init_pc, cache, cache_hits, result, kept, threads>>

\* get_holidays of a facade that binds itself to the first constructed
\* calendar when it has none (self.stock_exchange = default) before it
\* delegates.
GetHolidays_binds_default ==
  /\ facade.created
  /\ LET f == IF facade.stock_exchange = None /\ calendars # <<>>
              THEN [facade EXCEPT !.stock_exchange = 1]
              ELSE facade
         r == Holidays_get_holidays(f, calendars)
     IN /\ facade' = f
        /\ result' = [op |-> "get_holidays", arg |-> None,
                      exc |-> r.exc, ret |-> r.ret]
  /\ UNCHANGED <<calendars, init_pc, cache, cache_hits, kept, threads>>

\* facade.get_holidays()
GetHolidays ==
  /\ facade.created
  /\ LET r == Holidays_get_holidays(facade, calendars)
     IN result' = [op |-> "get_holidays", arg |-> None,
                   exc |-> r.exc, ret |-> r.ret]
  /\ UNCHANGED <<calendars, init_pc, facade, cache, cache_hits, kept, threads>>

\* get_holidays_by_year reading the per-year lists with
\* self._holidays_by_year.setdefault(year, []), which files an empty list
\* under a year that has none.
GetHolidaysByYear_setdefault(year) ==
  /\ facade.created
  /\ IF CacheIndex(cache, <<facade.stock_exchange, year>>) # 0
     THEN cache_hits < MaxHits
     ELSE Len(cache) < MaxDistinctYears
  /\ LET r == Holidays_get_holidays_by_year(facade, cache, calendars, year)
         x == facade.stock_exchange
     IN /\ result' = [op |-> "get_holidays_by_year", arg |-> year,
                      exc |-> r.exc, ret |-> r.ret]
        /\ cache' = r.cache
        /\ cache_hits' = IF r.hit THEN cache_hits + 1 ELSE cache_hits
        /\ calendars' =
             IF x # None /\ ~r.hit /\ ~DictHas(calendars[x].holidays_by_year, year)
             THEN [calendars EXCEPT ![x].holidays_by_year = Append(@, <<year, <<>>>>)]
             ELSE calendars
  /\ UNCHANGED <<init_pc, facade, kept, threads>>

\* facade.get_holidays_by_year(year)
GetHolidaysByYear(year) ==
  /\ facade.created
  /\ IF CacheIndex(cache, <<facade.stock_exchange, year>>) # 0
     THEN cache_hits < MaxHits
     ELSE Len(cache) < MaxDistinctYears
  /\ LET r == Holidays_get_holidays_by_year(facade, cache, calendars, year)
     IN /\ result' = [op |-> "get_holidays_by_year", arg |-> year,
                      exc |-> r.exc, ret |-> r.ret]
        /\ cache' = r.cache
        /\ cache_hits' = IF r.hit THEN cache_hits + 1 ELSE cache_hits
  /\ UNCHANGED <<calendars, init_pc, facade, kept, threads>>

\* facade.is_date_holiday(date)
IsDateHoliday(date) ==
  /\ facade.created
  /\ LET r == Holidays_is_date_holiday(facade, calendars, date)
     IN result' = [op |-> "is_date_holiday", arg |-> date,
                   exc |-> r.exc, ret |-> r.ret]
  /\ UNCHANGED <<calendars, init_pc, facade, cache, cache_hits, kept, threads>>

\* The caller keeps what the last call returned, as the setUp of the tests
\* does (self.nyse_holidays = self.holidays.get_holidays()).
Keep ==
  /\ result.op # "none"
  /\ kept' = result
  /\ UNCHANGED <<calendars, init_pc, facade, cache, cache_hits, result, threads>>

Next ==
  \/ \E cls \in Exchanges : NewExchange(cls)
  \/ AddHoliday
  \/ \E x \in {None} \cup (1..Len(calendars)) : NewHolidays(x)
  \/ GetHolidays
  \/ \E year \in QueryYears : GetHolidaysByYear(year)
  \/ \E date \in TestDates : IsDateHoliday(date)

Spec == Init /\ [][Next]_vars

\* The callers of SpecDates ask is_date_holiday about every day from 1 January
\* of MinYear to 31 December of MaxYear, one day after the other.
SweepDate ==
  IF result.op = "is_date_holiday" THEN NextDay(result.arg) ELSE <<MinYear, 1, 1>>

NextDates ==
  \/ \E cls \in Exchanges : NewExchange(cls)
  \/ AddHoliday
  \/ \E x \in {None} \cup (1..Len(calendars)) : NewHolidays(x)
  \/ DateYear(SweepDate) <= MaxYear /\ IsDateHoliday(SweepDate)

SpecDates == Init /\ [][NextDates]_vars

\* The callers of SpecRepeat keep results and repeat calls, about two years
\* that have entries and one that has none.
RepeatYears == {MinYear, 2020, 2021}

NextRepeat ==
  \/ \E cls \in Exchanges : NewExchange(cls)
  \/ AddHoliday
  \/ \E x \in {None} \cup (1..Len(calendars)) : NewHolidays(x)
  \/ GetHolidays
  \/ \E year \in RepeatYears : GetHolidaysByYear(year)
  \/ \E date \in TestDates : IsDateHoliday(date)
  \/ Keep

SpecRepeat == Init /\ [][NextRepeat]_vars

----------------------------------------------------------------------------
\* cls() by a caller that constructs several calendars, of the same class
\* or not, between its calls.
NewExchangeMore(cls) ==
  /\ Len(calendars) < MaxInstances
  /\ init_pc = 0
  /\ calendars' = Append(calendars, StockExchange_init(cls))
  /\ init_pc' = 1
  /\ UNCHANGED <<facade, cache, cache_hits, result, kept, threads>>

\* calendar.get_holidays_by_year(year) on the constructed calendar with
\* reference inst; the result records both.
CalendarGetHolidaysByYear(inst, year) ==
  /\ init_pc = 0
  /\ inst \in 1..Len(calendars)
  /\ IF CacheIndex(cache, <<inst, year>>) # 0
     THEN cache_hits < MaxHits
     ELSE Len(cache) < MaxDistinctYears
  /\ LET r == get_holidays_by_year(cache, calendars, inst, year)
     IN /\ result' = [op |-> "StockExchange.get_holidays_by_year",
                      arg |-> <<inst, year>>, exc |-> r.exc, ret |-> r.ret]
        /\ cache' = r.cache
        /\ cache_hits' = IF r.hit THEN cache_hits + 1 ELSE cache_hits
  /\ UNCHANGED <<calendars, init_pc, facade, kept, threads>>

\* The callers of SpecInstances construct calendars of two classes and ask
\* each of them about the same years.
InstanceClasses == {"NYSE", "B3"}

InstanceYears == {2020, 2021}

NextInstances ==
  \/ \E cls \in InstanceClasses : NewExchangeMore(cls)
  \/ AddHoliday
  \/ \E inst \in 1..MaxInstances : \E year \in InstanceYears :
       CalendarGetHolidaysByYear(inst, year)

SpecInstances == Init /\ [][NextInstances]_vars

\* facade.get_holidays_by_year(year) by a caller that asks about more years
\* than the cache holds: one new year after the other from MinYear on, two
\* more than CacheMaxSize, and, once the cache is full, again about the first
\* two.
SweepYear ==
  IF cache = <<>>
  THEN MinYear
  ELSE 1 + (CHOOSE y \in {cache[i].key[2] : i \in 1..Len(cache)} :
              \A i \in 1..Len(cache) : cache[i].key[2] <= y)

LastSweepYear == MinYear + CacheMaxSize + 1

EarlyYears == {MinYear, MinYear + 1}

AskHolidaysByYear(year) ==
  /\ facade.created
  /\ LET r == Holidays_get_holidays_by_year(facade, cache, calendars, year)
     IN /\ result' = [op |-> "get_holidays_by_year", arg |-> year,
                      exc |-> r.exc, ret |-> r.ret]
        /\ cache' = r.cache
        /\ cache_hits' = IF r.hit THEN cache_hits + 1 ELSE cache_hits
  /\ UNCHANGED <<calendars, init_pc, facade, kept, threads>>

AskNextYear ==
  /\ SweepYear <= LastSweepYear
  /\ AskHolidaysByYear(SweepYear)

AskEarlyYearAgain(year) ==
  /\ Len(cache) = CacheMaxSize
  /\ CacheIndex(cache, <<facade.stock_exchange, year>>) # 0 => cache_hits < MaxHits
  /\ AskHolidaysByYear(year)

NextSweep ==
  \/ \E cls \in Exchanges : NewExchange(cls)
  \/ AddHoliday
  \/ \E x \in 1..Len(calendars) : NewHolidays(x)
  \/ AskNextYear
  \/ \E year \in EarlyYears : AskEarlyYearAgain(year)

SpecSweep == Init /\ [][NextSweep]_vars

\* The callers of SpecBase try the base class before they construct an
\* exchange.
NextBase ==
  \/ NewStockExchange
  \/ \E cls \in Exchanges : NewExchange(cls)
  \/ AddHoliday
  \/ \E x \in {None} \cup (1..Len(calendars)) : NewHolidays(x)
  \/ GetHolidays
  \/ \E date \in TestDates : IsDateHoliday(date)

SpecBase == Init /\ [][NextBase]_vars

\* The list a get_holidays_by_year call on a bound facade returns is the list
\* object the cache holds for (calendar, year): the miss stores the object it
\* returns and a hit returns the stored object. An entry leaves the cache
\* only by eviction, which needs CacheMaxSize entries.
KeptIsCached ==
  IF kept.op = "get_holidays_by_year" /\ facade.stock_exchange # None
  THEN CacheIndex(cache, <<facade.stock_exchange, kept.arg>>)
  ELSE 0

\* kept.clear() on a list that get_holidays_by_year returned without copying
\* it (return self._holidays_by_year.get(year, [])): the per-year list of the
\* calendar is the same object.
ClearKept_aliases_index ==
  /\ kept.op \in {"get_holidays", "get_holidays_by_year"}
  /\ kept.exc = "none"
  /\ kept.ret # <<>>
  /\ kept' = [kept EXCEPT !.ret = <<>>]
  /\ cache' = IF KeptIsCached # 0
              THEN [cache EXCEPT ![KeptIsCached].val = <<>>]
              ELSE cache
  /\ calendars' =
       IF KeptIsCached # 0
       THEN LET x == facade.stock_exchange
                k == CHOOSE j \in 1..Len(calendars[x].holidays_by_year) :
                       calendars[x].holidays_by_year[j][1] = kept.arg
            IN [calendars EXCEPT ![x].holidays_by_year[k] = <<kept.arg, <<>>>>]
       ELSE calendars
  /\ UNCHANGED <<init_pc, facade, cache_hits, result, threads>>

\* The caller empties in place the list it keeps (kept.clear()); the cache
\* holds the same object when KeptIsCached is not 0.
ClearKept ==
  /\ kept.op \in {"get_holidays", "get_holidays_by_year"}
  /\ kept.exc = "none"
  /\ kept.ret # <<>>
  /\ kept' = [kept EXCEPT !.ret = <<>>]
  /\ cache' = IF KeptIsCached # 0
              THEN [cache EXCEPT ![KeptIsCached].val = <<>>]
              ELSE cache
  /\ UNCHANGED <<calendars, init_pc, facade, cache_hits, result, threads>>

\* The callers of SpecShared keep the lists that calls return, empty them and
\* call again.
NextShared ==
  \/ \E cls \in Exchanges : NewExchange(cls)
  \/ AddHoliday
  \/ \E x \in {None} \cup (1..Len(calendars)) : NewHolidays(x)
  \/ GetHolidays
  \/ \E year \in RepeatYears : GetHolidaysByYear(year)
  \/ Keep
  \/ ClearKept

SpecShared == Init /\ [][NextShared]_vars

----------------------------------------------------------------------------
\* Several threads call the facade. get_holidays and is_date_holiday read the
\* calendar and return. get_holidays_by_year enters the lru_cache wrapper:
\* the lookup is one step (a hit returns the stored list and makes the entry
\* the most recently used), the method runs outside of it, and the store is
\* another step, so that other threads run between a miss and its store.
Returned(t, op, arg, exc, ret) ==
  threads' = [threads EXCEPT ![t] =
                [pc |-> "idle", op |-> op, arg |-> arg, val |-> None,
                 exc |-> exc, ret |-> ret]]

ThreadGetHolidays(t) ==
  /\ facade.created
  /\ threads[t].pc = "idle"
  /\ LET r == Holidays_get_holidays(facade, calendars)
     IN Returned(t, "get_holidays", None, r.exc, r.ret)
  /\ UNCHANGED <<calendars, init_pc, facade, cache, cache_hits, result, kept>>

ThreadIsDateHoliday(t, date) ==
  /\ facade.created
  /\ threads[t].pc = "idle"
  /\ LET r == Holidays_is_date_holiday(facade, calendars, date)
     IN Returned(t, "is_date_holiday", date, r.exc, r.ret)
  /\ UNCHANGED <<calendars, init_pc, facade, cache, cache_hits, result, kept>>

\* A lookup that files an empty list under the key on a miss, for the
\* method's value to replace it.
ThreadGetHolidaysByYear_reserves(t, year) ==
  /\ facade.created
  /\ threads[t].pc = "idle"
  /\ LET key == <<facade.stock_exchange, year>>
         i   == CacheIndex(cache, key)
     IN IF facade.stock_exchange = None
        THEN /\ Returned(t, "get_holidays_by_year", year, "none", <<>>)
             /\ UNCHANGED <<cache, cache_hits>>
        ELSE IF i # 0
        THEN /\ cache_hits < MaxHits
             /\ Returned(t, "get_holidays_by_year", year, "none", cache[i].val)
             /\ cache' = Append(CacheRemove(cache, i), cache[i])
             /\ cache_hits' = cache_hits + 1
        ELSE /\ threads' = [threads EXCEPT ![t] =
                              [pc |-> "call", op |-> "get_holidays_by_year",
                               arg |-> year, val |-> None,
                               exc |-> "none", ret |-> None]]
             /\ cache' = Append(cache, [key |-> key, val |-> <<>>])
             /\ UNCHANGED cache_hits
  /\ UNCHANGED <<calendars, init_pc, facade, result, kept>>

\* facade.get_holidays_by_year(year) up to the lookup of the wrapper.
ThreadGetHolidaysByYear(t, year) ==
  /\ facade.created
  /\ threads[t].pc = "idle"
  /\ LET key == <<facade.stock_exchange, year>>
         i   == CacheIndex(cache, key)
     IN IF facade.stock_exchange = None
        THEN /\ Returned(t, "get_holidays_by_year", year, "none", <<>>)
             /\ UNCHANGED <<cache, cache_hits>>
        ELSE IF i # 0
        THEN /\ cache_hits < MaxHits
             /\ Returned(t, "get_holidays_by_year", year, "none", cache[i].val)
             /\ cache' = Append(CacheRemove(cache, i), cache[i])
             /\ cache_hits' = cache_hits + 1
        ELSE /\ threads' = [threads EXCEPT ![t] =
                              [pc |-> "call", op |-> "get_holidays_by_year",
                               arg |-> year, val |-> None,
                               exc |-> "none", ret |-> None]]
             /\ UNCHANGED <<cache, cache_hits>>
  /\ UNCHANGED <<calendars, init_pc, facade, result, kept>>

\* The method itself, called by the wrapper after a miss.
ThreadCall(t) ==
  /\ threads[t].pc = "call"
  /\ LET r == get_holidays_by_year_body(calendars[facade.stock_exchange],
                                        threads[t].arg)
     IN IF r.exc # "none"
        THEN Returned(t, "get_holidays_by_year", threads[t].arg, r.exc, None)
        ELSE threads' = [threads EXCEPT ![t].pc = "store", ![t].val = r.ret]
  /\ UNCHANGED <<calendars, init_pc, facade, cache, cache_hits, result, kept>>

\* The wrapper stores the value and returns it.
ThreadStore(t) ==
  /\ threads[t].pc = "store"
  /\ cache' = CacheStore(cache, <<facade.stock_exchange, threads[t].arg>>,
                         threads[t].val)
  /\ Returned(t, "get_holidays_by_year", threads[t].arg, "none", threads[t].val)
  /\ UNCHANGED <<calendars, init_pc, facade, cache_hits, result, kept>>

\* The years and dates the threads ask about.
ThreadYears == {2020, 2021}

ThreadDates == {<<2020, 12, 25>>, <<2020, 12, 26>>}

NextThreads ==
  \/ \E cls \in Exchanges : NewExchange(cls)
  \/ AddHoliday
  \/ \E x \in {None} \cup (1..Len(calendars)) : NewHolidays(x)
  \/ \E t \in Threads : ThreadGetHolidays(t)
  \/ \E t \in Threads : \E date \in ThreadDates : ThreadIsDateHoliday(t, date)
  \/ \E t \in Threads : \E year \in ThreadYears : ThreadGetHolidaysByYear(t, year)
  \/ \E t \in Threads : ThreadCall(t)
  \/ \E t \in Threads : ThreadStore(t)

SpecThreads == Init /\ [][NextThreads]_vars

----------------------------------------------------------------------------
\* A subclass of StockExchange whose _initialize_holidays passes SampleSize
\* entries to _add_holiday: the last of 2020 and the first of 2021 of the NYSE
\* dataset, which have distinct dates and are listed here in ascending order.
SampleEntries == [i \in 1..SampleSize |-> NYSE_initialize_holidays[8 + i]]

SampleDates == {SampleEntries[i][1] : i \in 1..SampleSize}

SampleYears == {DateYear(d) : d \in SampleDates}

\* The next self._add_holiday call of a subclass that makes the calls in any
\* order: any entry not passed yet.
AddHolidayInAnyOrder(i) ==
  /\ init_pc # 0
  /\ LET self == calendars[Len(calendars)]
     IN /\ SampleEntries[i][1] \notin self.holiday_dates
        /\ calendars' = [calendars EXCEPT ![Len(calendars)] =
                           add_holiday(self, SampleEntries[i][1], SampleEntries[i][2])]
  /\ init_pc' = IF init_pc = SampleSize THEN 0 ELSE init_pc + 1
  /\ UNCHANGED <<facade, cache, cache_hits, result, kept, threads>>

\* The callers of SpecPermuted construct that subclass and query it about the
\* years and the dates of its entries and about the dates of the tests.
NextPermuted ==
  \/ NewExchange("Permuted")
  \/ \E i \in 1..SampleSize : AddHolidayInAnyOrder(i)
  \/ \E x \in 1..Len(calendars) : NewHolidays(x)
  \/ GetHolidays
  \/ \E year \in SampleYears : GetHolidaysByYear(year)
  \/ \E date \in SampleDates \cup TestDates : IsDateHoliday(date)

SpecPermuted == Init /\ [][NextPermuted]_vars

\* self._add_holiday(date, description) called on a constructed calendar,
\* after its constructor has returned, with a date it does not hold yet.
LateDates == {<<2020, 12, 26>>, <<2021, 1, 2>>}

AddHolidayLate(date) ==
  /\ init_pc = 0
  /\ calendars # <<>>
  /\ LET self == calendars[Len(calendars)]
     IN /\ date \notin self.holiday_dates
        /\ calendars' = [calendars EXCEPT ![Len(calendars)] =
                           add_holiday(self, date, "Late")]
  /\ UNCHANGED <<init_pc, facade, cache, cache_hits, result, kept, threads>>

\* The callers of SpecLate construct the subclass that adds in any order,
\* query it, and call _add_holiday on it between the queries.
NextLate ==
  \/ NewExchange("Permuted")
  \/ \E i \in 1..SampleSize : AddHolidayInAnyOrder(i)
  \/ \E x \in 1..Len(calendars) : NewHolidays(x)
  \/ GetHolidays
  \/ \E year \in SampleYears : GetHolidaysByYear(year)
  \/ \E date \in LateDates : IsDateHoliday(date)
  \/ \E date \in LateDates : AddHolidayLate(date)

SpecLate == Init /\ [][NextLate]_vars

\* The descriptions a subclass may pass with a date.
Descriptions(i) == {SampleEntries[i][2], "", "Market closed"}

AllDescriptions == UNION {Descriptions(i) : i \in 1..SampleSize}

\* The next self._add_holiday call of a subclass that passes the dates of
\* SampleEntries in their order, each with any description.
AddHolidayDescribed(description) ==
  /\ init_pc # 0
  /\ description \in Descriptions(init_pc)
  /\ LET self == calendars[Len(calendars)]
     IN calendars' = [calendars EXCEPT ![Len(calendars)] =
                        add_holiday(self, SampleEntries[init_pc][1], description)]
  /\ init_pc' = IF init_pc = SampleSize THEN 0 ELSE init_pc + 1
  /\ UNCHANGED <<facade, cache, cache_hits, result, kept, threads>>

NextDescribed ==
  \/ NewExchange("Described")
  \/ \E description \in AllDescriptions : AddHolidayDescribed(description)
  \/ \E x \in 1..Len(calendars) : NewHolidays(x)
  \/ GetHolidays
  \/ \E year \in SampleYears : GetHolidaysByYear(year)
  \/ \E date \in SampleDates \cup TestDates : IsDateHoliday(date)

SpecDescribed == Init /\ [][NextDescribed]_vars

----------------------------------------------------------------------------
\* What the claims speak of: the facade bound to a calendar, the class of that
\* calendar, the literal dataset of a class, and what a query made in the
\* current state returns.
Bound == facade.created /\ facade.stock_exchange # None

Unbound == facade.created /\ facade.stock_exchange = None

BoundCls == calendars[facade.stock_exchange].cls

LiteralDates(cls) ==
  {initialize_holidays(cls)[i][1] : i \in 1..Len(initialize_holidays(cls))}

LiteralEntries(cls) ==
  {initialize_holidays(cls)[i] : i \in 1..Len(initialize_holidays(cls))}

LiteralOfYear(cls, year) ==
  {i \in 1..Len(initialize_holidays(cls)) :
     DateYear(initialize_holidays(cls)[i][1]) = year}

Ascending(list) ==
  \A k \in 1..(Len(list) - 1) : DateLT(list[k][1], list[k + 1][1])

AnswerByYear(year) ==
  LET r == Holidays_get_holidays_by_year(facade, cache, calendars, year)
  IN [exc |-> r.exc, ret |-> r.ret]

\* C1: on a facade bound to any of the five exchanges, is_date_holiday of a
\* date that the exchange's _initialize_holidays passes to _add_holiday
\* returns True.
C1_LiteralDateIsHoliday ==
  (Bound /\ result.op = "is_date_holiday"
         /\ result.arg \in LiteralDates(BoundCls))
    => (result.exc = "none" /\ result.ret = TRUE)

C1_Witness ==
  /\ Bound
  /\ BoundCls = "JPX"
  /\ result.op = "is_date_holiday"
  /\ result.arg = <<2026, 12, 31>>
  /\ result.ret = TRUE

\* C2: on a facade bound to an exchange, is_date_holiday of a calendar date
\* that is not in the exchange's literal dataset returns False.
C2_OtherDateIsNoHoliday ==
  (Bound /\ result.op = "is_date_holiday"
         /\ result.arg \notin LiteralDates(BoundCls))
    => (result.exc = "none" /\ result.ret = FALSE)

C2_Witness ==
  /\ Bound
  /\ BoundCls = "NYSE"
  /\ result.op = "is_date_holiday"
  /\ result.arg = <<2020, 12, 26>>
  /\ result.ret = FALSE

\* C3: get_holidays_by_year(Y) returns exactly the literal entries whose date
\* is in year Y, in ascending date order, as many as the dataset has for Y.
C3_ByYearIsLiteralOfYear ==
  (Bound /\ result.op = "get_holidays_by_year") =>
    LET lit == initialize_holidays(BoundCls)
        idx == LiteralOfYear(BoundCls, result.arg)
    IN /\ result.exc = "none"
       /\ Len(result.ret) = Cardinality(idx)
       /\ \A i \in idx : \E k \in 1..Len(result.ret) : result.ret[k] = lit[i]
       /\ \A k \in 1..Len(result.ret) : \E i \in idx : result.ret[k] = lit[i]
       /\ Ascending(result.ret)

C3_Witness ==
  /\ Bound
  /\ BoundCls = "B3"
  /\ result.op = "get_holidays_by_year"
  /\ result.arg = 2021
  /\ Len(result.ret) = 15
  /\ cache_hits > 0

\* C4: on a facade without exchange, after any calls, get_holidays and
\* get_holidays_by_year return the empty list and is_date_holiday returns
\* False, and none of them raises.
C4_UnboundIsEmpty ==
  (Unbound /\ result.op # "none") =>
    /\ result.exc = "none"
    /\ result.op = "get_holidays" => result.ret = <<>>
    /\ result.op = "get_holidays_by_year" => result.ret = <<>>
    /\ result.op = "is_date_holiday" => result.ret = FALSE

C4_Witness ==
  /\ Unbound
  /\ result.op = "is_date_holiday"
  /\ result.arg = <<2020, 1, 1>>
  /\ result.ret = FALSE

\* C5: get_holidays() returns every literal entry of the exchange, all years
\* together, in ascending date order, and its length is the sum over the
\* years Y of the length of get_holidays_by_year(Y).
AllYears(cls) ==
  QueryYears \cup {DateYear(d) : d \in LiteralDates(cls)}

RECURSIVE SumOfByYearLengths(_)
SumOfByYearLengths(years) ==
  IF years = {}
  THEN 0
  ELSE LET y == CHOOSE z \in years : TRUE
       IN Len(AnswerByYear(y).ret) + SumOfByYearLengths(years \ {y})

C5_AllHolidays ==
  (Bound /\ result.op = "get_holidays") =>
    LET lit == initialize_holidays(BoundCls)
    IN /\ result.exc = "none"
       /\ Len(result.ret) = Len(lit)
       /\ \A i \in 1..Len(lit) : \E k \in 1..Len(result.ret) : result.ret[k] = lit[i]
       /\ Ascending(result.ret)
       /\ Len(result.ret) = SumOfByYearLengths(AllYears(BoundCls))

C5_Witness ==
  /\ Bound
  /\ BoundCls = "SSE"
  /\ result.op = "get_holidays"
  /\ Len(result.ret) = 125
  /\ cache # <<>>

\* C6: no two entries of get_holidays() have the same date, and its length is
\* the size of the date set of the calendar.
C6_DatesAreUnique ==
  (Bound /\ result.op = "get_holidays") =>
    /\ \A j, k \in 1..Len(result.ret) :
         result.ret[j][1] = result.ret[k][1] => j = k
    /\ Len(result.ret) = Cardinality(calendars[facade.stock_exchange].holiday_dates)

C6_Witness ==
  /\ Bound
  /\ BoundCls = "JPX"
  /\ result.op = "get_holidays"
  /\ Len(result.ret) = 144
  /\ Cardinality(calendars[facade.stock_exchange].holiday_dates) = 144

\* C7: get_holidays_by_year of a year in which the exchange's dataset has no
\* entry returns the empty list and does not raise.
C7_AbsentYearIsEmpty ==
  (Bound /\ result.op = "get_holidays_by_year"
         /\ LiteralOfYear(BoundCls, result.arg) = {})
    => (result.exc = "none" /\ result.ret = <<>>)

C7_Witness ==
  /\ Bound
  /\ BoundCls = "CME"
  /\ result.op = "get_holidays_by_year"
  /\ result.arg = 2019
  /\ result.ret = <<>>

\* C8: a call of a query method returns what an earlier call of the same
\* method with the same arguments returned, whatever queries were made in
\* between.
C8_Idempotent ==
  (kept.op # "none" /\ result.op = kept.op /\ result.arg = kept.arg)
    => (result.exc = kept.exc /\ result.ret = kept.ret)

C8_Witness ==
  /\ Bound
  /\ kept.op = "get_holidays_by_year"
  /\ result.op = "get_holidays_by_year"
  /\ kept.arg = 2020
  /\ result.arg = 2020
  /\ result.ret = kept.ret
  /\ result.ret # <<>>
  /\ cache_hits > 0
  /\ Len(cache) = 2

\* C9: for NYSE and for CME, get_holidays_by_year returns 10 entries for 2020
\* and for 2021, and 11 for each of 2022, 2023, 2024 and 2025.
C9_Counts == <<10, 10, 11, 11, 11, 11>>

C9_NyseCmeCounts ==
  (Bound /\ result.op = "get_holidays_by_year"
         /\ BoundCls \in {"NYSE", "CME"} /\ result.arg \in 2020..2025)
    => Len(result.ret) = C9_Counts[result.arg - 2019]

C9_Witness ==
  /\ Bound
  /\ BoundCls = "CME"
  /\ result.op = "get_holidays_by_year"
  /\ result.arg = 2022
  /\ Len(result.ret) = 11

\* C10: for the years 2020..2025, get_holidays_by_year returns 14, 15, 13, 13,
\* 13, 13 entries for B3, 18, 19, 19, 19, 18, 16 for SSE and 19, 20, 18, 19,
\* 24, 22 for JPX.
C10_Counts(cls) ==
  CASE cls = "B3"  -> <<14, 15, 13, 13, 13, 13>>
    [] cls = "SSE" -> <<18, 19, 19, 19, 18, 16>>
    [] cls = "JPX" -> <<19, 20, 18, 19, 24, 22>>

C10_B3SseJpxCounts ==
  (Bound /\ result.op = "get_holidays_by_year"
         /\ BoundCls \in {"B3", "SSE", "JPX"} /\ result.arg \in 2020..2025)
    => Len(result.ret) = C10_Counts(BoundCls)[result.arg - 2019]

C10_Witness ==
  /\ Bound
  /\ BoundCls = "JPX"
  /\ result.op = "get_holidays_by_year"
  /\ result.arg = 2024
  /\ Len(result.ret) = 24

\* C11: on a bound facade, get_holidays returns the holidays of the calendar,
\* get_holidays_by_year(Y) returns what get_holidays_by_year(Y) of the
\* calendar returns, and is_date_holiday(d) returns is_holiday(d) of the
\* calendar.
C11_FacadeDelegates ==
  (Bound /\ result.op # "none") =>
    LET x == facade.stock_exchange
    IN /\ result.exc = "none"
       /\ result.op = "get_holidays" => result.ret = holidays(calendars[x])
       /\ result.op = "get_holidays_by_year" =>
            LET r == get_holidays_by_year(cache, calendars, x, result.arg)
            IN r.exc = "none" /\ result.ret = r.ret
       /\ result.op = "is_date_holiday" =>
            result.ret = is_holiday(calendars[x], result.arg)

C11_Witness ==
  /\ Bound
  /\ BoundCls = "B3"
  /\ result.op = "is_date_holiday"
  /\ result.arg = <<2020, 1, 1>>
  /\ result.ret = TRUE
  /\ is_holiday(calendars[facade.stock_exchange], <<2020, 1, 1>>)

\* C12: no query raises, on a facade bound to any exchange or to none, for
\* years with and without entries and for dates that are and are not
\* holidays: get_holidays and get_holidays_by_year return a list,
\* is_date_holiday returns a boolean.
C12_NoQueryRaises ==
  (result.op # "none") =>
    /\ result.exc = "none"
    /\ result.op \in {"get_holidays", "get_holidays_by_year"} =>
         result.ret \in Seq(IF Bound THEN LiteralEntries(BoundCls) ELSE {})
    /\ result.op = "is_date_holiday" => result.ret \in BOOLEAN

C12_Witness ==
  /\ Unbound
  /\ result.op = "get_holidays"
  /\ result.exc = "none"
  /\ result.ret = <<>>

\* C13: once the constructor of a calendar has returned, no step changes its
\* _holidays_by_year or its _holiday_dates: every query leaves both as they
\* were.
Constructed(i) == i \in 1..Len(calendars) /\ (i < Len(calendars) \/ init_pc = 0)

C13_ReadOnlyAfterConstruction ==
  [][\A i \in 1..Len(calendars) :
       Constructed(i) =>
         /\ calendars'[i].holidays_by_year = calendars[i].holidays_by_year
         /\ calendars'[i].holiday_dates = calendars[i].holiday_dates]_vars

C13_Witness ==
  /\ Bound
  /\ Constructed(facade.stock_exchange)
  /\ BoundCls = "SSE"
  /\ result.op = "get_holidays_by_year"
  /\ result.arg = 2019
  /\ Len(cache) = 2
  /\ ~DictHas(calendars[facade.stock_exchange].holidays_by_year, 2019)
  /\ calendars[facade.stock_exchange].holiday_dates = LiteralDates("SSE")

\* C17: once a facade is constructed, no step changes its stock_exchange: a
\* bound facade stays bound to the same calendar and an unbound one stays
\* unbound, whatever is called on it.
C17_BindingIsFixed ==
  [][facade.created =>
       /\ facade'.created
       /\ facade'.stock_exchange = facade.stock_exchange]_vars

C17_Witness ==
  /\ Unbound
  /\ calendars # <<>>
  /\ init_pc = 0
  /\ result.op = "get_holidays"
  /\ result.ret = <<>>

\* C16: every entry of a constructed calendar of any of the five exchanges
\* has a date in the years 2020 to 2026, every key of its per-year index is
\* one of those years, and it has at least one entry in each of the seven.
C16_Window ==
  \A i \in 1..Len(calendars) :
    (Constructed(i) /\ calendars[i].cls \in Exchanges) =>
      LET cal == calendars[i]
      IN /\ \A d \in cal.holiday_dates : DateYear(d) \in 2020..2026
         /\ \A k \in 1..Len(cal.holidays_by_year) :
              /\ cal.holidays_by_year[k][1] \in 2020..2026
              /\ \A e \in 1..Len(cal.holidays_by_year[k][2]) :
                   cal.holidays_by_year[k][2][e][1][1] \in 2020..2026
         /\ \A y \in 2020..2026 :
              /\ get_holidays_by_year_body(cal, y).ret # <<>>
              /\ \E d \in cal.holiday_dates : d[1] = y

C16_Witness ==
  /\ Bound
  /\ Constructed(facade.stock_exchange)
  /\ BoundCls = "NYSE"
  /\ result.op = "get_holidays_by_year"
  /\ result.arg = 2021
  /\ Len(result.ret) = 10
  /\ Len(calendars[facade.stock_exchange].holidays_by_year) = 7
  /\ get_holidays_by_year_body(calendars[facade.stock_exchange], 2026).ret # <<>>

\* C18: whatever the order in which the constructor passes a dataset of
\* distinct dates to _add_holiday, get_holidays returns the entries in
\* ascending date order, get_holidays_by_year(Y) those of year Y in ascending
\* date order, and is_date_holiday(d) whether d is a date of the dataset.
EntriesOfYear(entries, year) ==
  SelectSeq(entries, LAMBDA e : DateYear(e[1]) = year)

C18_InsertionOrderIsIrrelevant ==
  (Bound /\ BoundCls = "Permuted" /\ result.op # "none") =>
    /\ result.exc = "none"
    /\ result.op = "get_holidays" => result.ret = SampleEntries
    /\ result.op = "get_holidays_by_year" =>
         result.ret = EntriesOfYear(SampleEntries, result.arg)
    /\ result.op = "is_date_holiday" =>
         result.ret = (result.arg \in SampleDates)

C18_Witness ==
  /\ Bound
  /\ BoundCls = "Permuted"
  /\ calendars[1].holidays_by_year[1][1] = 2021
  /\ calendars[1].holidays_by_year[2][2][1] = SampleEntries[2]
  /\ result.op = "get_holidays"
  /\ result.ret = SampleEntries

\* C19: whatever descriptions the constructor passes with the dates of a
\* dataset, is_date_holiday(d) returns whether d is a date of the dataset, and
\* the dates of the entries of get_holidays and of get_holidays_by_year(Y)
\* are the dates of the dataset, and those of year Y, in ascending order.
DatesOf(list) == [k \in 1..Len(list) |-> list[k][1]]

C19_DescriptionIsInformational ==
  (Bound /\ BoundCls = "Described" /\ result.op # "none") =>
    /\ result.exc = "none"
    /\ result.op = "get_holidays" =>
         DatesOf(result.ret) = DatesOf(SampleEntries)
    /\ result.op = "get_holidays_by_year" =>
         DatesOf(result.ret) = DatesOf(EntriesOfYear(SampleEntries, result.arg))
    /\ result.op = "is_date_holiday" =>
         result.ret = (result.arg \in SampleDates)

C19_Witness ==
  /\ Bound
  /\ BoundCls = "Described"
  /\ result.op = "get_holidays_by_year"
  /\ result.arg = 2020
  /\ Len(result.ret) = 2
  /\ result.ret[1][2] = ""
  /\ result.ret[2][2] = "Market closed"
  /\ DatesOf(result.ret) = <<SampleEntries[1][1], SampleEntries[2][1]>>

\* C15: every get_holidays_by_year call returns what the method returns with
\* the cache removed: the sorted list of the entries the per-year index holds
\* for the year.
Uncached(year) ==
  get_holidays_by_year_body(calendars[facade.stock_exchange], year)

C15_CacheIsTransparent ==
  (Bound /\ result.op = "get_holidays_by_year") =>
    /\ result.exc = Uncached(result.arg).exc
    /\ result.ret = Uncached(result.arg).ret

\* C14: whatever the interleaving of the calls of the threads, every call
\* returns what it returns when it runs alone: get_holidays the holidays of
\* the calendar, get_holidays_by_year the sorted entries of the year,
\* is_date_holiday the membership of the date, and the empty list or False
\* on a facade without exchange.
Alone(op, arg) ==
  IF facade.stock_exchange = None
  THEN (IF op = "is_date_holiday" THEN FALSE ELSE <<>>)
  ELSE CASE op = "get_holidays" -> holidays(calendars[facade.stock_exchange])
         [] op = "get_holidays_by_year" -> Uncached(arg).ret
         [] op = "is_date_holiday" ->
              is_holiday(calendars[facade.stock_exchange], arg)

C14_ThreadsReturnAsAlone ==
  \A t \in Threads :
    (threads[t].pc = "idle" /\ threads[t].op # "none") =>
      /\ threads[t].exc = "none"
      /\ threads[t].ret = Alone(threads[t].op, threads[t].arg)

C14_Witness ==
  /\ Bound
  /\ threads[1].pc = "idle"
  /\ threads[1].op = "get_holidays_by_year"
  /\ threads[1].arg = 2020
  /\ threads[2].pc = "store"
  /\ threads[2].arg = 2020
  /\ threads[1].ret = threads[2].val
  /\ threads[1].ret # <<>>
  /\ Len(cache) = 1
  /\ cache_hits = 0

\* C20: on an instance of any of the five classes, holidays,
\* get_holidays_by_year and is_holiday are the methods of StockExchange, and
\* what a query returns is what those return on the same indexes held by an
\* instance of StockExchange or of any other of the five classes.
QueryMethod(op) ==
  CASE op = "get_holidays" -> "holidays"
    [] op = "get_holidays_by_year" -> "get_holidays_by_year"
    [] op = "is_date_holiday" -> "is_holiday"

AsClass(self, cls) == [self EXCEPT !.cls = cls]

C20_ClassesDifferInDataOnly ==
  (Bound /\ BoundCls \in Exchanges /\ result.op # "none") =>
    /\ Resolve(BoundCls, QueryMethod(result.op)) = "StockExchange"
    /\ Resolve(BoundCls, "_initialize_holidays") = BoundCls
    /\ \A cls \in Exchanges \cup {"StockExchange"} :
         LET other == AsClass(calendars[facade.stock_exchange], cls)
         IN /\ result.op = "get_holidays" => result.ret = holidays(other)
            /\ result.op = "get_holidays_by_year" =>
                 result.ret = get_holidays_by_year_body(other, result.arg).ret
            /\ result.op = "is_date_holiday" =>
                 result.ret = is_holiday(other, result.arg)

C20_Witness ==
  /\ Bound
  /\ BoundCls = "B3"
  /\ result.op = "is_date_holiday"
  /\ result.arg = <<2020, 12, 26>>
  /\ result.ret = FALSE
  /\ is_holiday(AsClass(calendars[facade.stock_exchange], "JPX"), result.arg) = FALSE

\* C21: whatever the caller did to a list that get_holidays_by_year returned,
\* a later get_holidays_by_year(Y) on the same calendar returns the literal
\* entries of year Y in ascending date order.
C21_ModifiedResultIsNotReturned ==
  (Bound /\ BoundCls \in Exchanges /\ result.op = "get_holidays_by_year") =>
    /\ result.exc = "none"
    /\ result.ret = EntriesOfYear(initialize_holidays(BoundCls), result.arg)

\* C25: whatever the caller did to the lists that get_holidays and
\* get_holidays_by_year returned, the per-year index and the date set of a
\* constructed calendar hold the literal dataset, get_holidays returns all of
\* it and every literal date is a holiday.
C25_ReturnedListsAreCopies ==
  /\ \A i \in 1..Len(calendars) :
       (Constructed(i) /\ calendars[i].cls \in Exchanges) =>
         LET cal == calendars[i]
             lit == initialize_holidays(cal.cls)
         IN /\ cal.holiday_dates = LiteralDates(cal.cls)
            /\ \A k \in 1..Len(cal.holidays_by_year) :
                 cal.holidays_by_year[k][2] =
                   EntriesOfYear(lit, cal.holidays_by_year[k][1])
            /\ \A d \in LiteralDates(cal.cls) : is_holiday(cal, d)
  /\ (Bound /\ BoundCls \in Exchanges /\ result.op = "get_holidays") =>
       result.ret = initialize_holidays(BoundCls)

C25_Witness ==
  /\ Bound
  /\ BoundCls = "JPX"
  /\ kept.op = "get_holidays_by_year"
  /\ kept.arg = 2020
  /\ kept.ret = <<>>
  /\ KeptIsCached # 0
  /\ cache[KeptIsCached].val = <<>>
  /\ Len(DictGet(calendars[facade.stock_exchange].holidays_by_year, 2020, <<>>)) = 19
  /\ result.op = "get_holidays"
  /\ Len(result.ret) = 144

\* C23: in every state, during construction, after it, and after later
\* _add_holiday calls, a date is in the date set of a calendar exactly when
\* the per-year list of its year holds an entry with that date, and exactly
\* when holidays holds an entry with that date.
C23_IndexesAgree ==
  \A i \in 1..Len(calendars) :
    LET cal == calendars[i]
        all == holidays(cal)
    IN /\ \A d \in cal.holiday_dates :
            /\ is_holiday(cal, d)
            /\ \E e \in 1..Len(DictGet(cal.holidays_by_year, DateYear(d), <<>>)) :
                 DictGet(cal.holidays_by_year, DateYear(d), <<>>)[e][1] = d
       /\ \A k \in 1..Len(cal.holidays_by_year) :
            \A e \in 1..Len(cal.holidays_by_year[k][2]) :
              /\ DateYear(cal.holidays_by_year[k][2][e][1]) = cal.holidays_by_year[k][1]
              /\ is_holiday(cal, cal.holidays_by_year[k][2][e][1])
       /\ {all[k][1] : k \in 1..Len(all)} = cal.holiday_dates

C23_Witness ==
  /\ calendars # <<>>
  /\ init_pc = 0
  /\ Cardinality(calendars[1].holiday_dates) = SampleSize + 2
  /\ Len(holidays(calendars[1])) = SampleSize + 2
  /\ is_holiday(calendars[1], <<2020, 12, 26>>)
  /\ result.op = "get_holidays_by_year"

\* C29: in every state, after later _add_holiday calls too, a
\* get_holidays_by_year(Y) call returns the entries the per-year index holds
\* for Y, sorted by date, and every date of the date set is the date of an
\* entry that get_holidays_by_year of its year returns.
C29_ByYearFollowsTheIndex ==
  Bound =>
    LET cal == calendars[facade.stock_exchange]
    IN /\ \A year \in SampleYears :
            AnswerByYear(year).ret =
              sorted(DictGet(cal.holidays_by_year, year, <<>>))
       /\ \A d \in cal.holiday_dates :
            \E k \in 1..Len(AnswerByYear(DateYear(d)).ret) :
              AnswerByYear(DateYear(d)).ret[k][1] = d

\* C24: every entry that get_holidays_by_year(Y) returns has a date of year
\* Y, get_holidays returns the get_holidays_by_year(Y) lists of the years Y in
\* ascending order one after the other, and each of its entries is in the
\* list of exactly one year.
RECURSIVE ConcatByYear(_, _)
ConcatByYear(year, last) ==
  IF year > last
  THEN <<>>
  ELSE AnswerByYear(year).ret \o ConcatByYear(year + 1, last)

C24_YearsPartitionTheCalendar ==
  /\ (Bound /\ result.op = "get_holidays_by_year") =>
       \A k \in 1..Len(result.ret) : DateYear(result.ret[k][1]) = result.arg
  /\ (Bound /\ BoundCls \in Exchanges /\ result.op = "get_holidays") =>
       LET years == AllYears(BoundCls)
           first == CHOOSE y \in years : \A z \in years : y <= z
           last  == CHOOSE y \in years : \A z \in years : z <= y
           lists == {<<y, AnswerByYear(y).ret>> : y \in years}
       IN /\ result.ret = ConcatByYear(first, last)
          /\ \A k \in 1..Len(result.ret) :
               Cardinality({p \in lists :
                              \E e \in 1..Len(p[2]) : p[2][e] = result.ret[k]}) = 1

C24_Witness ==
  /\ Bound
  /\ BoundCls = "SSE"
  /\ result.op = "get_holidays"
  /\ Len(result.ret) = 125
  /\ Len(cache) = 2
  /\ cache_hits > 0

\* C27: the datasets of NYSE and CME are equal, and every query on a calendar
\* of one of the two returns what the dataset of the other gives: all its
\* entries, its entries of the year, membership in its dates.
OtherOfNyseCme(cls) == IF cls = "NYSE" THEN "CME" ELSE "NYSE"

C27_NyseEqualsCme ==
  /\ initialize_holidays("NYSE") = initialize_holidays("CME")
  /\ (Bound /\ BoundCls \in {"NYSE", "CME"} /\ result.op # "none") =>
       LET lit == initialize_holidays(OtherOfNyseCme(BoundCls))
       IN /\ result.op = "get_holidays" => result.ret = lit
          /\ result.op = "get_holidays_by_year" =>
               result.ret = EntriesOfYear(lit, result.arg)
          /\ result.op = "is_date_holiday" =>
               result.ret = (result.arg \in LiteralDates(OtherOfNyseCme(BoundCls)))

C27_Witness ==
  /\ Bound
  /\ BoundCls = "CME"
  /\ result.op = "get_holidays"
  /\ result.ret = NYSE_initialize_holidays
  /\ Len(result.ret) = 75

\* C28: StockExchange() raises AttributeError and returns no object; every
\* calendar there is belongs to one of the five exchange classes, and a
\* constructed calendar never has empty indexes.
C28_BaseClassIsNotConstructible ==
  /\ result.op = "StockExchange" =>
       (result.exc = "AttributeError" /\ result.ret = None)
  /\ \A i \in 1..Len(calendars) :
       /\ calendars[i].cls \in Exchanges
       /\ Constructed(i) =>
            (calendars[i].holiday_dates # {} /\ calendars[i].holidays_by_year # <<>>)

C28_Witness ==
  /\ result.op = "StockExchange"
  /\ result.exc = "AttributeError"
  /\ calendars # <<>>
  /\ Constructed(1)
  /\ calendars[1].cls = "NYSE"
  /\ Bound

\* C22: whatever calls were made on other calendars, of the same class or
\* not, with the same year or not, get_holidays_by_year(Y) on a calendar
\* returns the literal entries of year Y of the class of that calendar.
C22_CacheKeepsInstancesApart ==
  (result.op = "StockExchange.get_holidays_by_year") =>
    /\ result.exc = "none"
    /\ result.ret = EntriesOfYear(initialize_holidays(calendars[result.arg[1]].cls),
                                  result.arg[2])

C22_Witness ==
  /\ Len(calendars) = 2
  /\ calendars[1].cls = "NYSE"
  /\ calendars[2].cls = "B3"
  /\ Len(cache) = 2
  /\ cache[1].key = <<1, 2020>>
  /\ cache[2].key = <<2, 2020>>
  /\ result.op = "StockExchange.get_holidays_by_year"
  /\ result.arg = <<2, 2020>>
  /\ Len(result.ret) = 14
  /\ Len(cache[1].val) = 10

\* C26: the cache never holds more than 128 entries; a call that misses on a
\* full cache drops the least recently used entry (a hit makes its entry the
\* most recently used); and every get_holidays_by_year result, recomputed
\* after an eviction or not, is the list of the literal entries of the year.
C26_HitIsMostRecent ==
  cache_hits' # cache_hits =>
    /\ Len(cache') = Len(cache)
    /\ cache'[Len(cache')].key = <<facade.stock_exchange, result'.arg>>
    /\ \A i \in 1..Len(cache) : \E j \in 1..Len(cache') : cache'[j] = cache[i]

C26_MissOnFullDropsOldest ==
  (cache_hits' = cache_hits /\ cache' # cache /\ Len(cache) = 128) =>
    /\ Len(cache') = 128
    /\ cache'[128].key = <<facade.stock_exchange, result'.arg>>
    /\ \A i \in 1..127 : cache'[i] = cache[i + 1]

C26_EvictionIsInvisible ==
  /\ [](Len(cache) <= 128)
  /\ []((Bound /\ result.op = "get_holidays_by_year") =>
          result.ret = EntriesOfYear(initialize_holidays(BoundCls), result.arg))
  /\ [][C26_HitIsMostRecent /\ C26_MissOnFullDropsOldest]_vars

C26_Witness ==
  /\ Bound
  /\ BoundCls = "B3"
  /\ Len(cache) = 128
  /\ cache_hits = 0
  /\ \E i \in 1..Len(cache) : cache[i].key[2] = LastSweepYear
  /\ result.op = "get_holidays_by_year"
  /\ result.arg = MinYear + 1
  /\ result.ret # <<>>
  /\ cache[128].key[2] = MinYear + 1

====
